---- MODULE Spec2Model ----
(***************************************************************************)
(* A model of the CHIP-8 virtual machine of chip-8-toolkit: the machine    *)
(* state (system.rs), the executor (execute.rs), the runtime loop (run.rs) *)
(* and the debugger REPL (debug_terminal.rs).                              *)
(*                                                                         *)
(* Representation.  MEMORY is the zero-initialised array [u8; 4096]; it is *)
(* held as the function from the addresses of its non-zero bytes to those  *)
(* bytes (get_memory_u8 reads 0 elsewhere).  DISPLAY is the array          *)
(* [[bool; 32]; 64]; it is held as the set of the <<x, y>> that are true.  *)
(* STACK is the Vec<u16>, top at the end.  An instruction is a tuple       *)
(* <<variant, operands...>>; decode's None is the tuple <<"None">>.        *)
(* A Rust panic (assert!, unwrap, expect) moves the control position pos   *)
(* to "aborted" and keeps what was written before it; panic_msg is what    *)
(* the panic reports.  timer_log is a history variable: for each of the    *)
(* last 12 completed iterations of the loop of run(), whether the          *)
(* iteration called the timer decrements.                                  *)
(*                                                                         *)
(* The reader of standard input (stdin.rs) is a second thread.  A string   *)
(* is the sequence of its characters.  stdin_pending is the input that has *)
(* arrived and is not read yet, contents_chan and lines_chan are the two   *)
(* channels, reader_buf and reader_pos the thread's buffer and position,   *)
(* lines_read what readline has returned so far.  stdin_typed (all input   *)
(* that has arrived) and injections (all strings given to set_contents)    *)
(* are history variables.  current_history_idx is the local of get_line   *)
(* and dbg_last_pressed_keys the field last_pressed_keys of DebugState.    *)
(*                                                                         *)
(* The assembler (main.rs) is a program of its own: asm_line is the line   *)
(* of tokens given to parse_line last and asm_out what it returned.        *)
(***************************************************************************)
EXTENDS Integers, Sequences, FiniteSets, TLC

VARIABLES
    MEMORY, DISPLAY, PC, I, STACK, DELAY_TIMER, SOUND_TIMER, REGISTERS,
    n_instructions_executed, pressed_keys, last_pressed_keys, is_debug,
    last_instructions, old_register_state, old_i_state, old_display_state,
    last_debug_command, history, breakpoints, pos, panic_msg, timer_log,
    stdin_typed, stdin_pending, reader_pos, reader_buf, contents_chan, lines_chan,
    lines_read, injections, current_history_idx, dbg_last_pressed_keys,
    asm_line, asm_out

sysvars == <<MEMORY, DISPLAY, PC, I, STACK, DELAY_TIMER, SOUND_TIMER, REGISTERS>>
loopvars == <<n_instructions_executed, pressed_keys, last_pressed_keys, is_debug,
              last_instructions, old_register_state, old_i_state, old_display_state>>
dbgvars == <<last_debug_command, history, breakpoints>>
vmvars == <<sysvars, loopvars, dbgvars, pos, panic_msg, timer_log>>
rdvars == <<stdin_typed, stdin_pending, reader_pos, reader_buf, contents_chan, lines_chan,
            lines_read, injections>>
linevars == <<current_history_idx, dbg_last_pressed_keys>>
asmvars == <<asm_line, asm_out>>
vars == <<vmvars, rdvars, linevars, asmvars>>

(***************************************************************************)
(* Program constants.                                                      *)
(***************************************************************************)
DISPLAY_WIDTH == 64
DISPLAY_HEIGHT == 32
STACK_SIZE == 16
VSYNC_PERIOD == 12
RING_SIZE == 3
ROM_BASE == 512
FONT_BASE == 80

(***************************************************************************)
(* Bounds of the model.                                                    *)
(***************************************************************************)
MaxSteps == 4
MaxStepsAlu == 3
MaxStepsDraw == 14
MaxStepsKeys == 3
MaxStepsStack == 17
MaxStepsTimers == 13
MaxStepsCadence == 24
MaxStepsDebug == 2
MaxStepsDecode == 1
MaxStepsMem == 8
MaxTyped == 4
MaxInjections == 2
MaxStack == 17
MaxStackSmall == 2
MaxHistory == 3

V0 == 0
VF == 15
Registers == 0..15
Byte == 0..255

(***************************************************************************)
(* Fixed-width integer helpers.                                            *)
(***************************************************************************)
RECURSIVE BitAnd(_, _)
BitAnd(a, b) ==
    IF a = 0 \/ b = 0 THEN 0
    ELSE (a % 2) * (b % 2) + 2 * BitAnd(a \div 2, b \div 2)

RECURSIVE BitOr(_, _)
BitOr(a, b) ==
    IF a = 0 THEN b
    ELSE IF b = 0 THEN a
    ELSE (IF a % 2 = 1 \/ b % 2 = 1 THEN 1 ELSE 0) + 2 * BitOr(a \div 2, b \div 2)

RECURSIVE BitXor(_, _)
BitXor(a, b) ==
    IF a = 0 THEN b
    ELSE IF b = 0 THEN a
    ELSE ((a + b) % 2) + 2 * BitXor(a \div 2, b \div 2)

wrapping_add(a, b) == (a + b) % 256
wrapping_sub(a, b) == (a - b + 256) % 256
saturating_sub(a, b) == IF a >= b THEN a - b ELSE 0
as_u8(v) == v % 256
as_u16(v) == v % 65536

(***************************************************************************)
(* system.rs: the machine state and its accessors.  s is the record of the *)
(* eight globals plus panicked; once panicked, no later write happens.     *)
(***************************************************************************)
Sys == [MEMORY |-> MEMORY, DISPLAY |-> DISPLAY, PC |-> PC, I |-> I, STACK |-> STACK,
        DELAY_TIMER |-> DELAY_TIMER, SOUND_TIMER |-> SOUND_TIMER,
        REGISTERS |-> REGISTERS, panicked |-> FALSE]

Panic(s) == [s EXCEPT !.panicked = TRUE]

\* assert!((addr & 0xf000) == 0, "Address must be 12-bit!")
is_12bit(val) == BitAnd(val, \hF000) = 0

mem_read(mem, addr) == IF addr \in DOMAIN mem THEN mem[addr] ELSE 0

mem_write(mem, addr, val) ==
    IF val = 0 THEN [a \in DOMAIN mem \ {addr} |-> mem[a]]
    ELSE [a \in DOMAIN mem \cup {addr} |-> IF a = addr THEN val ELSE mem[a]]

\* get_memory_u8 panics exactly when ~is_12bit(addr); callers test that first.
get_memory_u8(s, addr) == mem_read(s.MEMORY, addr)

\* get_memory_u16 asserts on addr + 1, then reads both bytes.
get_memory_u16_ok(addr) == is_12bit(addr + 1) /\ is_12bit(addr)

get_memory_u16(s, addr) == get_memory_u8(s, addr) * 256 + get_memory_u8(s, addr + 1)

set_memory_u8(s, addr, val) ==
    IF s.panicked THEN s
    ELSE IF ~is_12bit(addr) THEN Panic(s)
    ELSE [s EXCEPT !.MEMORY = mem_write(@, addr, val)]

set_memory_u16(s, addr, val) ==
    IF s.panicked THEN s
    ELSE IF ~is_12bit(addr) THEN Panic(s)
    ELSE set_memory_u8(set_memory_u8(s, addr, BitAnd(val \div 256, 255)),
                       addr + 1, BitAnd(val, 255))

display_in_range(x, y) == x < DISPLAY_WIDTH /\ y < DISPLAY_HEIGHT

get_display(s, x, y) == <<x, y>> \in s.DISPLAY

set_display(s, x, y, val) ==
    IF s.panicked THEN s
    ELSE IF ~display_in_range(x, y) THEN Panic(s)
    ELSE [s EXCEPT !.DISPLAY = IF val THEN @ \cup {<<x, y>>} ELSE @ \ {<<x, y>>}]

\* set_pc without its 12-bit assertion.
set_pc_unchecked(s, val) ==
    IF s.panicked THEN s ELSE [s EXCEPT !.PC = val]

set_pc(s, val) ==
    IF s.panicked THEN s
    ELSE IF ~is_12bit(val) THEN Panic(s)
    ELSE [s EXCEPT !.PC = val]

set_i(s, val) ==
    IF s.panicked THEN s
    ELSE IF ~is_12bit(val) THEN Panic(s)
    ELSE [s EXCEPT !.I = val]

stack_push(s, val) ==
    IF s.panicked THEN s ELSE [s EXCEPT !.STACK = Append(@, val)]

\* stack_pop that removes the oldest entry.
stack_pop_front(s) ==
    IF s.panicked THEN s ELSE [s EXCEPT !.STACK = SubSeq(@, 2, Len(@))]

\* stack_pop removes the last entry; the caller handles the None of an empty stack.
stack_pop(s) ==
    IF s.panicked THEN s ELSE [s EXCEPT !.STACK = SubSeq(@, 1, Len(@) - 1)]

set_delay_timer(s, val) == IF s.panicked THEN s ELSE [s EXCEPT !.DELAY_TIMER = val]

set_sound_timer(s, val) == IF s.panicked THEN s ELSE [s EXCEPT !.SOUND_TIMER = val]

get_register(s, reg) == s.REGISTERS[reg]

set_register(s, reg, val) ==
    IF s.panicked THEN s ELSE [s EXCEPT !.REGISTERS[reg] = val]

(***************************************************************************)
(* run.rs: the two key maps built at the start of run().                   *)
(***************************************************************************)
KEYPRESS_MAP_by_position ==
    ("Key1" :> 1) @@ ("Key2" :> 2) @@ ("Key3" :> 3) @@ ("Key4" :> 4) @@
    ("Q" :> 5) @@ ("W" :> 6) @@ ("E" :> 7) @@ ("R" :> 8) @@
    ("A" :> 9) @@ ("S" :> 10) @@ ("D" :> 11) @@ ("F" :> 12) @@
    ("Z" :> 13) @@ ("X" :> 0) @@ ("C" :> 14) @@ ("V" :> 15)

KEYPRESS_MAP ==
    ("Key1" :> 1) @@ ("Key2" :> 2) @@ ("Key3" :> 3) @@ ("Key4" :> 12) @@
    ("Q" :> 4) @@ ("W" :> 5) @@ ("E" :> 6) @@ ("R" :> 13) @@
    ("A" :> 7) @@ ("S" :> 8) @@ ("D" :> 9) @@ ("F" :> 14) @@
    ("Z" :> 10) @@ ("X" :> 0) @@ ("C" :> 11) @@ ("V" :> 15)

REVERSE_KEYPRESS_MAP ==
    (1 :> "Key1") @@ (2 :> "Key2") @@ (3 :> "Key3") @@ (12 :> "Key4") @@
    (4 :> "Q") @@ (5 :> "W") @@ (6 :> "E") @@ (13 :> "R") @@
    (7 :> "A") @@ (8 :> "S") @@ (9 :> "D") @@ (14 :> "F") @@
    (10 :> "Z") @@ (0 :> "X") @@ (11 :> "C") @@ (15 :> "V")

(***************************************************************************)
(* run.rs: decode, as used by the runtime loop.                            *)
(***************************************************************************)
None == <<"None">>

\* decode without its check of the last nibble of 5XY0.
decode_loose(ins) ==
    LET first == BitAnd(ins, \hF000) \div 4096
        second == BitAnd(ins, \h0F00) \div 256
        third == BitAnd(ins, \h00F0) \div 16
        fourth == BitAnd(ins, \h000F)
        nn == BitAnd(ins, \h00FF)
        nnn == BitAnd(ins, \h0FFF)
    IN  CASE first = 0 ->
               IF second = 0 /\ third = 14 /\ fourth = 14 THEN <<"SubroutineReturn">>
               ELSE IF second = 0 /\ third = 14 /\ fourth = 0 THEN <<"Clear">>
               ELSE None
          [] first = 1 -> <<"Jump", nnn>>
          [] first = 2 -> <<"SubroutineCall", nnn>>
          [] first = 3 -> <<"SkipConditional1", second, nn>>
          [] first = 4 -> <<"SkipConditional2", second, nn>>
          [] first = 5 -> <<"SkipConditional3", second, third>>
          [] first = 6 -> <<"SetRegister", second, nn>>
          [] first = 7 -> <<"Add", second, nn>>
          [] first = 8 ->
               CASE fourth = 0 -> <<"RegSet", second, third>>
                 [] fourth = 1 -> <<"BinaryOr", second, third>>
                 [] fourth = 2 -> <<"BinaryAnd", second, third>>
                 [] fourth = 3 -> <<"BinaryXor", second, third>>
                 [] fourth = 4 -> <<"RegAdd", second, third>>
                 [] fourth = 5 -> <<"Subtract1", second, third>>
                 [] fourth = 6 -> <<"ShiftRight", second, third>>
                 [] fourth = 7 -> <<"Subtract2", second, third>>
                 [] fourth = 14 -> <<"ShiftLeft", second, third>>
                 [] OTHER -> None
          [] first = 9 -> IF fourth = 0 THEN <<"SkipConditional4", second, third>> ELSE None
          [] first = 10 -> <<"SetIndexRegister", nnn>>
          [] first = 11 -> <<"JumpOffset", nnn>>
          [] first = 12 -> <<"Random", second, nn>>
          [] first = 13 -> <<"Draw", second, third, fourth>>
          [] first = 14 ->
               CASE nn = 158 -> <<"SkipIfKey", second>>
                 [] nn = 161 -> <<"SkipIfNotKey", second>>
                 [] OTHER -> None
          [] first = 15 ->
               CASE nn = 7 -> <<"GetDelayTimer", second>>
                 [] nn = 10 -> <<"GetKey", second>>
                 [] nn = 21 -> <<"SetDelayTimer", second>>
                 [] nn = 24 -> <<"SetSoundTimer", second>>
                 [] nn = 30 -> <<"AddToIndex", second>>
                 [] nn = 41 -> <<"FontCharacter", second>>
                 [] nn = 51 -> <<"BCD", second>>
                 [] nn = 85 -> <<"StoreMemory", second>>
                 [] nn = 101 -> <<"LoadMemory", second>>
                 [] OTHER -> None
          [] OTHER -> None

decode(ins) ==
    LET first == BitAnd(ins, \hF000) \div 4096
        second == BitAnd(ins, \h0F00) \div 256
        third == BitAnd(ins, \h00F0) \div 16
        fourth == BitAnd(ins, \h000F)
        nn == BitAnd(ins, \h00FF)
        nnn == BitAnd(ins, \h0FFF)
    IN  CASE first = 0 ->
               IF second = 0 /\ third = 14 /\ fourth = 14 THEN <<"SubroutineReturn">>
               ELSE IF second = 0 /\ third = 14 /\ fourth = 0 THEN <<"Clear">>
               ELSE None
          [] first = 1 -> <<"Jump", nnn>>
          [] first = 2 -> <<"SubroutineCall", nnn>>
          [] first = 3 -> <<"SkipConditional1", second, nn>>
          [] first = 4 -> <<"SkipConditional2", second, nn>>
          [] first = 5 -> IF fourth = 0 THEN <<"SkipConditional3", second, third>> ELSE None
          [] first = 6 -> <<"SetRegister", second, nn>>
          [] first = 7 -> <<"Add", second, nn>>
          [] first = 8 ->
               CASE fourth = 0 -> <<"RegSet", second, third>>
                 [] fourth = 1 -> <<"BinaryOr", second, third>>
                 [] fourth = 2 -> <<"BinaryAnd", second, third>>
                 [] fourth = 3 -> <<"BinaryXor", second, third>>
                 [] fourth = 4 -> <<"RegAdd", second, third>>
                 [] fourth = 5 -> <<"Subtract1", second, third>>
                 [] fourth = 6 -> <<"ShiftRight", second, third>>
                 [] fourth = 7 -> <<"Subtract2", second, third>>
                 [] fourth = 14 -> <<"ShiftLeft", second, third>>
                 [] OTHER -> None
          [] first = 9 -> IF fourth = 0 THEN <<"SkipConditional4", second, third>> ELSE None
          [] first = 10 -> <<"SetIndexRegister", nnn>>
          [] first = 11 -> <<"JumpOffset", nnn>>
          [] first = 12 -> <<"Random", second, nn>>
          [] first = 13 -> <<"Draw", second, third, fourth>>
          [] first = 14 ->
               CASE nn = 158 -> <<"SkipIfKey", second>>
                 [] nn = 161 -> <<"SkipIfNotKey", second>>
                 [] OTHER -> None
          [] first = 15 ->
               CASE nn = 7 -> <<"GetDelayTimer", second>>
                 [] nn = 10 -> <<"GetKey", second>>
                 [] nn = 21 -> <<"SetDelayTimer", second>>
                 [] nn = 24 -> <<"SetSoundTimer", second>>
                 [] nn = 30 -> <<"AddToIndex", second>>
                 [] nn = 41 -> <<"FontCharacter", second>>
                 [] nn = 51 -> <<"BCD", second>>
                 [] nn = 85 -> <<"StoreMemory", second>>
                 [] nn = 101 -> <<"LoadMemory", second>>
                 [] OTHER -> None
          [] OTHER -> None

(***************************************************************************)
(* decode.rs: the decode shared by the tools.                              *)
(***************************************************************************)
decode_shared(ins) ==
    LET first == BitAnd(ins, \hF000) \div 4096
        second == BitAnd(ins, \h0F00) \div 256
        third == BitAnd(ins, \h00F0) \div 16
        fourth == BitAnd(ins, \h000F)
        nn == BitAnd(ins, \h00FF)
        nnn == BitAnd(ins, \h0FFF)
    IN  CASE first = 0 ->
               IF second = 0 /\ third = 14 /\ fourth = 14 THEN <<"SubroutineReturn">>
               ELSE IF second = 0 /\ third = 14 /\ fourth = 0 THEN <<"Clear">>
               ELSE None
          [] first = 1 -> <<"Jump", nnn>>
          [] first = 2 -> <<"SubroutineCall", nnn>>
          [] first = 3 -> <<"SkipConditional1", second, nn>>
          [] first = 4 -> <<"SkipConditional2", second, nn>>
          [] first = 5 -> IF fourth = 0 THEN <<"SkipConditional3", second, third>> ELSE None
          [] first = 6 -> <<"SetRegister", second, nn>>
          [] first = 7 -> <<"Add", second, nn>>
          [] first = 8 ->
               CASE fourth = 0 -> <<"RegSet", second, third>>
                 [] fourth = 1 -> <<"BinaryOr", second, third>>
                 [] fourth = 2 -> <<"BinaryAnd", second, third>>
                 [] fourth = 3 -> <<"BinaryXor", second, third>>
                 [] fourth = 4 -> <<"RegAdd", second, third>>
                 [] fourth = 5 -> <<"Subtract1", second, third>>
                 [] fourth = 6 -> <<"ShiftRight", second, third>>
                 [] fourth = 7 -> <<"Subtract2", second, third>>
                 [] fourth = 14 -> <<"ShiftLeft", second, third>>
                 [] OTHER -> None
          [] first = 9 -> IF fourth = 0 THEN <<"SkipConditional4", second, third>> ELSE None
          [] first = 10 -> <<"SetIndexRegister", nnn>>
          [] first = 11 -> <<"JumpOffset", nnn>>
          [] first = 12 -> <<"Random", second, nn>>
          [] first = 13 -> <<"Draw", second, third, fourth>>
          [] first = 14 ->
               CASE nn = 158 -> <<"SkipIfKey", second>>
                 [] nn = 161 -> <<"SkipIfNotKey", second>>
                 [] OTHER -> None
          [] first = 15 ->
               CASE nn = 7 -> <<"GetDelayTimer", second>>
                 [] nn = 10 -> <<"GetKey", second>>
                 [] nn = 21 -> <<"SetDelayTimer", second>>
                 [] nn = 24 -> <<"SetSoundTimer", second>>
                 [] nn = 30 -> <<"AddToIndex", second>>
                 [] nn = 41 -> <<"FontCharacter", second>>
                 [] nn = 51 -> <<"BCD", second>>
                 [] nn = 85 -> <<"StoreMemory", second>>
                 [] nn = 101 -> <<"LoadMemory", second>>
                 [] OTHER -> None
          [] OTHER -> None

(***************************************************************************)
(* execute.rs: the executor.  execute yields the set of machine states the *)
(* instruction can leave: one state, except where the code depends on the  *)
(* iteration order of a HashSet (GetKey) or on the clock (Random).         *)
(***************************************************************************)
\* The low bytes the clock of Random is drawn from.
Timestamps == {0, 90, 255}

BlankDisplay == {}

\* The inner loop of Draw: for j in (0..8).rev(), k = 7 - j.
RECURSIVE draw_cols(_, _, _, _, _)
draw_cols(s, x, display_y, sprite_val, k) ==
    IF k = 8 \/ s.panicked THEN s
    ELSE LET j == 7 - k
             display_x == x + 8 - j - 1
         IN  IF display_x >= DISPLAY_WIDTH THEN draw_cols(s, x, display_y, sprite_val, k + 1)
             ELSE LET is_set == BitAnd(sprite_val \div (2 ^ j), 1) # 0
                      display_val == get_display(s, display_x, display_y)
                      new_display_val == (display_val # is_set)
                      s1 == IF is_set
                            THEN set_display(s, display_x, display_y, new_display_val)
                            ELSE s
                      s2 == IF is_set /\ display_val THEN set_register(s1, VF, 1) ELSE s1
                  IN  draw_cols(s2, x, display_y, sprite_val, k + 1)

\* The outer loop of Draw: for i in 0..n.
RECURSIVE draw_rows(_, _, _, _, _, _)
draw_rows(s, x, y, sprite_location, n, i) ==
    IF i >= n \/ s.panicked THEN s
    ELSE LET display_y == y + i
         IN  IF display_y >= DISPLAY_HEIGHT THEN draw_rows(s, x, y, sprite_location, n, i + 1)
             ELSE IF ~is_12bit(sprite_location + i) THEN Panic(s)
             ELSE draw_rows(draw_cols(s, x, display_y,
                                      get_memory_u8(s, sprite_location + i), 0),
                            x, y, sprite_location, n, i + 1)

\* draw_commit that leaves VF as it finds it.
draw_commit_keep_flag(s, vx, vy, n) ==
    LET sprite_location == s.I
        x == get_register(s, vx) % DISPLAY_WIDTH
        y == get_register(s, vy) % DISPLAY_HEIGHT
    IN  draw_rows(s, x, y, sprite_location, n, 0)

\* Draw past its vsync gate.
draw_commit(s, vx, vy, n) ==
    LET s0 == set_register(s, VF, 0)
        sprite_location == s0.I
        x == get_register(s0, vx) % DISPLAY_WIDTH
        y == get_register(s0, vy) % DISPLAY_HEIGHT
    IN  draw_rows(s0, x, y, sprite_location, n, 0)

\* exec_draw that clears VF before it looks at the step counter.
exec_draw_clear_first(s, vx, vy, n, n_executed) ==
    LET s0 == set_register(s, VF, 0)
    IN  IF (n_executed % VSYNC_PERIOD) # 1 THEN set_pc(s0, saturating_sub(s0.PC, 2))
        ELSE draw_commit(s0, vx, vy, n)

\* exec_draw that draws while it waits for the vblank.
exec_draw_while_gated(s, vx, vy, n, n_executed) ==
    IF (n_executed % VSYNC_PERIOD) # 1
    THEN LET s1 == draw_commit(s, vx, vy, n)
         IN  set_pc(s1, saturating_sub(s1.PC, 2))
    ELSE draw_commit(s, vx, vy, n)

\* exec_draw that waits for every second vblank.
exec_draw_every_second(s, vx, vy, n, n_executed) ==
    IF (n_executed % (2 * VSYNC_PERIOD)) # 1 THEN set_pc(s, saturating_sub(s.PC, 2))
    ELSE draw_commit(s, vx, vy, n)

exec_draw(s, vx, vy, n, n_executed) ==
    IF (n_executed % VSYNC_PERIOD) # 1 THEN set_pc(s, saturating_sub(s.PC, 2))
    ELSE draw_commit(s, vx, vy, n)

exec_reg_add(s, vx, vy) ==
    LET sum == get_register(s, vx) + get_register(s, vy)
        s1 == set_register(s, vx, as_u8(sum % 255))
    IN  set_register(s1, VF, IF sum > 255 THEN 1 ELSE 0)

\* Subtract1 with the flag set only on a strictly positive difference.
exec_subtract1_strict(s, vx, vy) ==
    LET subbed == get_register(s, vx) - get_register(s, vy)
        s1 == set_register(s, vx, wrapping_sub(get_register(s, vx), get_register(s, vy)))
    IN  set_register(s1, VF, IF subbed > 0 THEN 1 ELSE 0)

exec_subtract1(s, vx, vy) ==
    LET subbed == get_register(s, vx) - get_register(s, vy)
        s1 == set_register(s, vx, wrapping_sub(get_register(s, vx), get_register(s, vy)))
    IN  set_register(s1, VF, IF subbed >= 0 THEN 1 ELSE 0)

exec_subtract2(s, vx, vy) ==
    LET subbed == get_register(s, vy) - get_register(s, vx)
        s1 == set_register(s, vx, wrapping_sub(get_register(s, vy), get_register(s, vx)))
    IN  set_register(s1, VF, IF subbed >= 0 THEN 1 ELSE 0)

\* ShiftRight that writes the flag before the shifted value.
exec_shift_right_flag_first(s, vx, vy) ==
    LET s1 == set_register(s, vx, get_register(s, vy))
        old_vx == get_register(s1, vx)
        s2 == set_register(s1, VF, BitAnd(old_vx, 1))
    IN  set_register(s2, vx, BitAnd(old_vx \div 2, 127))

exec_shift_right(s, vx, vy) ==
    LET s1 == set_register(s, vx, get_register(s, vy))
        old_vx == get_register(s1, vx)
        s2 == set_register(s1, vx, BitAnd(get_register(s1, vx) \div 2, 127))
    IN  set_register(s2, VF, BitAnd(old_vx, 1))

\* ShiftLeft that leaves the shifted value in VY as well.
exec_shift_left_both(s, vx, vy) ==
    LET s1 == set_register(s, vx, get_register(s, vy))
        old_vx == get_register(s1, vx)
        shifted == BitAnd(as_u8(get_register(s1, vx) * 2), 254)
        s2 == set_register(set_register(s1, vx, shifted), vy, shifted)
    IN  set_register(s2, VF, IF BitAnd(old_vx, 128) = 128 THEN 1 ELSE 0)

exec_shift_left(s, vx, vy) ==
    LET s1 == set_register(s, vx, get_register(s, vy))
        old_vx == get_register(s1, vx)
        s2 == set_register(s1, vx, BitAnd(as_u8(get_register(s1, vx) * 2), 254))
    IN  set_register(s2, VF, IF BitAnd(old_vx, 128) = 128 THEN 1 ELSE 0)

\* GetKey that takes a key pressed now and not before (the press edge).
exec_get_key_on_press(s, vx, pressed, last_pressed) ==
    LET fresh == {k \in pressed : k \notin last_pressed}
    IN  IF fresh = {} THEN {set_pc(s, saturating_sub(s.PC, 2))}
        ELSE {IF key \in DOMAIN KEYPRESS_MAP
              THEN set_register(s, vx, KEYPRESS_MAP[key])
              ELSE Panic(s) : key \in fresh}

\* GetKey: find() returns any key of last_pressed_keys that is not pressed now.
exec_get_key(s, vx, pressed, last_pressed) ==
    LET released == {k \in last_pressed : k \notin pressed}
    IN  IF released = {} THEN {set_pc(s, saturating_sub(s.PC, 2))}
        ELSE {IF key \in DOMAIN KEYPRESS_MAP
              THEN set_register(s, vx, KEYPRESS_MAP[key])
              ELSE Panic(s) : key \in released}

exec_skip_if_key(s, vx, pressed) ==
    LET key == get_register(s, vx)
    IN  IF key \in DOMAIN REVERSE_KEYPRESS_MAP /\ REVERSE_KEYPRESS_MAP[key] \in pressed
        THEN set_pc(s, s.PC + 2)
        ELSE s

\* SkipIfNotKey that takes a code with no host key as not pressed.
exec_skip_if_not_key_lenient(s, vx, pressed) ==
    LET key == get_register(s, vx)
    IN  IF key \in DOMAIN REVERSE_KEYPRESS_MAP /\ REVERSE_KEYPRESS_MAP[key] \in pressed
        THEN s
        ELSE set_pc(s, s.PC + 2)

exec_skip_if_not_key(s, vx, pressed) ==
    LET key == get_register(s, vx)
    IN  IF key \notin DOMAIN REVERSE_KEYPRESS_MAP THEN Panic(s)
        ELSE IF REVERSE_KEYPRESS_MAP[key] \notin pressed THEN set_pc(s, s.PC + 2)
        ELSE s

exec_font_character(s, vx) ==
    LET char == get_register(s, vx)
    IN  set_memory_u16(s, s.I, FONT_BASE + char * 5)

exec_bcd(s, vx) ==
    LET val == get_register(s, vx)
        hundreds == val \div 100
        tens == (val % 100) \div 10
        ones == val % 10
        s1 == set_memory_u8(s, s.I, hundreds)
        s2 == set_memory_u8(s1, s1.I + 1, tens)
    IN  set_memory_u8(s2, s2.I + 2, ones)

\* StoreMemory without the increment of I.
RECURSIVE store_loop_fixed_i(_, _, _)
store_loop_fixed_i(s, i, vx) ==
    IF i > vx \/ s.panicked THEN s
    ELSE store_loop_fixed_i(set_memory_u8(s, s.I + i, get_register(s, i)), i + 1, vx)

\* StoreMemory: for i in 0..=vx.
RECURSIVE store_loop(_, _, _)
store_loop(s, i, vx) ==
    IF i > vx \/ s.panicked THEN s
    ELSE LET s1 == set_memory_u8(s, s.I, get_register(s, i))
         IN  store_loop(set_i(s1, s1.I + 1), i + 1, vx)

\* LoadMemory: for i in 0..=vx.
RECURSIVE load_loop(_, _, _)
load_loop(s, i, vx) ==
    IF i > vx \/ s.panicked THEN s
    ELSE IF ~is_12bit(s.I) THEN Panic(s)
    ELSE LET s1 == set_register(s, i, get_memory_u8(s, s.I))
         IN  load_loop(set_i(s1, s1.I + 1), i + 1, vx)

execute(s, instruction, pressed, last_pressed, n_executed) ==
    LET op == instruction[1]
        a == IF Len(instruction) >= 2 THEN instruction[2] ELSE 0
        b == IF Len(instruction) >= 3 THEN instruction[3] ELSE 0
        c == IF Len(instruction) >= 4 THEN instruction[4] ELSE 0
    IN  CASE op = "ExecuteMachineLanguageRoutine" -> {Panic(s)}
          [] op = "Clear" -> {[s EXCEPT !.DISPLAY = BlankDisplay]}
          [] op = "SubroutineReturn" ->
               {IF s.STACK = <<>> THEN Panic(s)
                ELSE set_pc(stack_pop(s), s.STACK[Len(s.STACK)])}
          [] op = "Jump" -> {set_pc(s, a)}
          [] op = "SubroutineCall" -> {set_pc(stack_push(s, s.PC), a)}
          [] op = "SkipConditional1" ->
               {IF get_register(s, a) = b THEN set_pc(s, s.PC + 2) ELSE s}
          [] op = "SkipConditional2" ->
               {IF get_register(s, a) # b THEN set_pc(s, s.PC + 2) ELSE s}
          [] op = "SkipConditional3" ->
               {IF get_register(s, a) = get_register(s, b) THEN set_pc(s, s.PC + 2) ELSE s}
          [] op = "SetRegister" -> {set_register(s, a, b)}
          [] op = "Add" -> {set_register(s, a, wrapping_add(get_register(s, a), b))}
          [] op = "RegSet" -> {set_register(s, a, get_register(s, b))}
          [] op = "BinaryOr" ->
               {set_register(set_register(s, a, BitOr(get_register(s, a), get_register(s, b))),
                             VF, 0)}
          [] op = "BinaryAnd" ->
               {set_register(set_register(s, a, BitAnd(get_register(s, a), get_register(s, b))),
                             VF, 0)}
          [] op = "BinaryXor" ->
               {set_register(set_register(s, a, BitXor(get_register(s, a), get_register(s, b))),
                             VF, 0)}
          [] op = "RegAdd" -> {exec_reg_add(s, a, b)}
          [] op = "Subtract1" -> {exec_subtract1(s, a, b)}
          [] op = "ShiftRight" -> {exec_shift_right(s, a, b)}
          [] op = "Subtract2" -> {exec_subtract2(s, a, b)}
          [] op = "ShiftLeft" -> {exec_shift_left(s, a, b)}
          [] op = "SkipConditional4" ->
               {IF get_register(s, a) # get_register(s, b) THEN set_pc(s, s.PC + 2) ELSE s}
          [] op = "SetIndexRegister" -> {set_i(s, a)}
          [] op = "JumpOffset" -> {set_pc(s, a + get_register(s, V0))}
          [] op = "Random" -> {set_register(s, a, as_u8(BitAnd(t, b))) : t \in Timestamps}
          [] op = "Draw" -> {exec_draw(s, a, b, c, n_executed)}
          [] op = "SkipIfKey" -> {exec_skip_if_key(s, a, pressed)}
          [] op = "SkipIfNotKey" -> {exec_skip_if_not_key(s, a, pressed)}
          [] op = "GetDelayTimer" -> {set_register(s, a, s.DELAY_TIMER)}
          [] op = "SetDelayTimer" -> {set_delay_timer(s, get_register(s, a))}
          [] op = "SetSoundTimer" -> {set_sound_timer(s, get_register(s, a))}
          [] op = "AddToIndex" -> {set_i(s, s.I + get_register(s, a))}
          [] op = "GetKey" -> exec_get_key(s, a, pressed, last_pressed)
          [] op = "FontCharacter" -> {exec_font_character(s, a)}
          [] op = "BCD" -> {exec_bcd(s, a)}
          [] op = "StoreMemory" -> {store_loop(s, 0, a)}
          [] op = "LoadMemory" -> {load_loop(s, 0, a)}
          [] op = "Db" -> {s}

(***************************************************************************)
(* Construction: the font at 0x050, the ROM at 0x200, PC = 0x200 and the   *)
(* rest zero; then the locals of run() as they are before its loop.        *)
(***************************************************************************)
FONT ==
    << 240, 144, 144, 144, 240,    32,  96,  32,  32, 112,
       240,  16, 240, 128, 240,   240,  16, 240,  16, 240,
       144, 144, 240,  16,  16,   240, 128, 240,  16, 240,
       240, 128, 240, 144, 240,   240,  16,  32,  64,  64,
       240, 144, 240, 144, 240,   240, 144, 240,  16, 240,
       240, 144, 240, 144, 144,   224, 144, 224, 144, 224,
       240, 128, 128, 128, 240,   224, 144, 144, 144, 224,
       240, 128, 240, 128, 240,   240, 128, 240, 128, 128 >>

\* The memory image of a ROM given as a sequence of 16-bit big-endian words.
init_memory(rom) ==
    LET font_range == FONT_BASE .. (FONT_BASE + Len(FONT) - 1)
        rom_range == ROM_BASE .. (ROM_BASE + 2 * Len(rom) - 1)
        byte(a) == IF a \in rom_range
                   THEN LET w == rom[((a - ROM_BASE) \div 2) + 1]
                        IN  IF (a - ROM_BASE) % 2 = 0 THEN w \div 256 ELSE w % 256
                   ELSE FONT[a - FONT_BASE + 1]
        dom == {a \in font_range \cup rom_range : byte(a) # 0}
    IN  [a \in dom |-> byte(a)]

InitWith(roms) ==
    /\ \E rom \in roms : MEMORY = init_memory(rom)
    /\ DISPLAY = BlankDisplay
    /\ PC = ROM_BASE
    /\ I = 0
    /\ STACK = <<>>
    /\ DELAY_TIMER = 0
    /\ SOUND_TIMER = 0
    /\ REGISTERS = [r \in Registers |-> 0]
    /\ n_instructions_executed = 0
    /\ pressed_keys = {}
    /\ last_pressed_keys = {}
    /\ is_debug = FALSE
    /\ last_instructions = <<>>
    /\ old_register_state = [r \in Registers |-> 0]
    /\ old_i_state = <<0, 0, 0>>
    /\ old_display_state = BlankDisplay
    /\ last_debug_command = <<>>
    /\ history = <<>>
    /\ breakpoints = {}
    /\ pos = "loop"
    /\ panic_msg = <<>>
    /\ timer_log = <<>>
    /\ stdin_typed = <<>>
    /\ stdin_pending = <<>>
    /\ reader_pos = "recv"
    /\ reader_buf = <<>>
    /\ contents_chan = <<>>
    /\ lines_chan = <<>>
    /\ lines_read = <<>>
    /\ injections = <<>>
    /\ current_history_idx = 0
    /\ dbg_last_pressed_keys = {}
    /\ asm_line = <<>>
    /\ asm_out = <<>>

(***************************************************************************)
(* run.rs: one iteration of the loop of run(), in two parts: Step is the   *)
(* part up to and including execute, Tick the part after it.               *)
(***************************************************************************)
\* while n_instructions_executed % 12 != 1 { n_instructions_executed += 1; }
next_vblank_stays(n) == n

next_vblank(n) == n + ((VSYNC_PERIOD + 1 - (n % VSYNC_PERIOD)) % VSYNC_PERIOD)

\* predict_instruction and the read of the predicted word, k times over:
\* FALSE when one of their get_memory_u16 calls panics.
RECURSIVE predict_ok(_, _, _)
predict_ok(s, addr, k) ==
    IF k = 0 THEN TRUE
    ELSE IF ~get_memory_u16_ok(addr) THEN FALSE
    ELSE LET ins == decode(get_memory_u16(s, addr))
             follows == ins[1] \in {"Jump", "JumpOffset", "SubroutineCall"}
             target_ok == CASE ins = None -> TRUE
                            [] ins[1] \in {"Jump", "SubroutineCall"} ->
                                 get_memory_u16_ok(ins[2])
                            [] ins[1] = "JumpOffset" ->
                                 get_memory_u16_ok(get_register(s, V0) + ins[2])
                            [] OTHER -> get_memory_u16_ok(addr + 2)
             next_addr == IF follows THEN ins[2] ELSE addr + 2
         IN  target_ok /\ get_memory_u16_ok(next_addr) /\ predict_ok(s, next_addr, k - 1)

\* The (I, memory[I], memory[I + 2]) triple; i_state_ok is FALSE when it panics.
i_state_ok(s) == is_12bit(s.I) /\ is_12bit(s.I + 2)

i_state(s) == <<s.I, get_memory_u8(s, s.I), get_memory_u8(s, s.I + 2)>>

\* The debug info block of the loop: TRUE when none of its reads panics.
debug_panel_ok(s) == predict_ok(s, s.PC - 2, 3) /\ i_state_ok(s)

ring_push_evict_newest(ring, entry) ==
    <<entry>> \o (IF Len(ring) = RING_SIZE THEN Tail(ring) ELSE ring)

ring_push(ring, entry) ==
    <<entry>> \o (IF Len(ring) = RING_SIZE THEN SubSeq(ring, 1, RING_SIZE - 1) ELSE ring)

Step(samples, max_steps) ==
    /\ pos = "loop"
    /\ n_instructions_executed < max_steps
    /\ \E keys \in samples :
         LET dbg == is_debug \/ "Escape" \in keys
             pc == PC
             fetch_ok == get_memory_u16_ok(pc)
             instruction_raw == get_memory_u16(Sys, pc)
             s1 == set_pc(Sys, pc + 2)
             instruction == decode(instruction_raw)
             n1 == IF dbg /\ instruction[1] = "Draw"
                   THEN next_vblank(n_instructions_executed)
                   ELSE n_instructions_executed
             decoded == fetch_ok /\ ~s1.panicked /\ instruction # None
             prepared == decoded /\ (dbg => debug_panel_ok(s1)) /\ i_state_ok(s1)
         IN  /\ last_pressed_keys' = pressed_keys
             /\ pressed_keys' = keys
             /\ is_debug' = dbg
             /\ IF ~prepared
                THEN /\ pos' = "aborted"
                     /\ panic_msg' =
                            IF ~fetch_ok \/ s1.panicked THEN <<"fetch", pc>>
                            ELSE IF instruction = None
                            THEN <<"Invalid instruction", I, instruction_raw>>
                            ELSE <<"snapshot", I>>
                     /\ PC' = IF fetch_ok THEN s1.PC ELSE PC
                     /\ n_instructions_executed' =
                            IF decoded THEN n1 ELSE n_instructions_executed
                     /\ UNCHANGED <<MEMORY, DISPLAY, I, STACK, DELAY_TIMER, SOUND_TIMER,
                                    REGISTERS, last_instructions, old_register_state,
                                    old_i_state, old_display_state>>
                ELSE \E r \in execute(s1, instruction, keys, pressed_keys, n1) :
                     /\ MEMORY' = r.MEMORY
                     /\ DISPLAY' = r.DISPLAY
                     /\ PC' = r.PC
                     /\ I' = r.I
                     /\ STACK' = r.STACK
                     /\ DELAY_TIMER' = r.DELAY_TIMER
                     /\ SOUND_TIMER' = r.SOUND_TIMER
                     /\ REGISTERS' = r.REGISTERS
                     /\ n_instructions_executed' = n1
                     /\ old_register_state' = s1.REGISTERS
                     /\ old_display_state' = s1.DISPLAY
                     /\ old_i_state' = i_state(s1)
                     /\ last_instructions' =
                            ring_push(last_instructions, <<pc, instruction_raw, instruction>>)
                     /\ pos' = IF r.panicked THEN "aborted" ELSE "timers"
                     /\ panic_msg' = IF r.panicked THEN <<"execute", instruction[1]>>
                                     ELSE panic_msg
    /\ UNCHANGED <<dbgvars, timer_log, rdvars, linevars, asmvars>>

decrement_timer_wrapping(t) == as_u8(t + 255)

decrement_timer(t) == saturating_sub(t, 1)

\* The breakpoint check at the end of the iteration: the address of the
\* most recent instruction tuple is a breakpoint.
breakpoint_hit == last_instructions[1][1] \in breakpoints

\* The log of the last 12 iterations, after one more of them.
log_push(log, decremented) ==
    LET all == Append(log, decremented)
    IN  IF Len(all) > VSYNC_PERIOD THEN Tail(all) ELSE all

Tick ==
    /\ pos = "timers"
    /\ timer_log' = log_push(timer_log, n_instructions_executed % VSYNC_PERIOD = 0)
    /\ IF n_instructions_executed % VSYNC_PERIOD = 0
       THEN /\ DELAY_TIMER' = decrement_timer(DELAY_TIMER)
            /\ SOUND_TIMER' = decrement_timer(SOUND_TIMER)
       ELSE UNCHANGED <<DELAY_TIMER, SOUND_TIMER>>
    /\ IF is_debug \/ breakpoint_hit
       THEN /\ pos' = "repl"
            /\ UNCHANGED n_instructions_executed
       ELSE /\ pos' = "loop"
            /\ n_instructions_executed' = n_instructions_executed + 1
    /\ UNCHANGED <<MEMORY, DISPLAY, PC, I, STACK, REGISTERS, pressed_keys,
                   last_pressed_keys, is_debug, last_instructions, old_register_state,
                   old_i_state, old_display_state, dbgvars, panic_msg, rdvars, linevars, asmvars>>

(***************************************************************************)
(* debug_terminal.rs: the debugger REPL.  A command line is the tuple of   *)
(* its space-separated words, as line.trim().split(' ') yields them; the   *)
(* blank line is <<>>.  Numbers are parsed by str_to_num, tabulated here   *)
(* on the numerals the command lines of the model use.                     *)
(***************************************************************************)
NoNum == -1

\* str_to_num on the numerals used: hex (0x..), binary (0b..) and decimal.
NUMERALS ==
    ("0" :> 0) @@ ("1" :> 1) @@ ("7" :> 7) @@ ("255" :> 255) @@ ("256" :> 256) @@
    ("0b101" :> 5) @@ ("0x0" :> 0) @@ ("0x2A" :> 42) @@ ("0xFF" :> 255) @@
    ("0x100" :> 256) @@ ("0x200" :> 512) @@ ("0x202" :> 514) @@ ("0x300" :> 768) @@
    ("0xFFD" :> 4093) @@ ("0xFFE" :> 4094) @@ ("0xFFF" :> 4095) @@
    ("0x1000" :> 4096) @@ ("0x1234" :> 4660) @@ ("0x10200" :> 66048)

str_to_num(word) == IF word \in DOMAIN NUMERALS THEN NUMERALS[word] ELSE NoNum

\* usize::from_str_radix(&word[1..2], 16) on the words that start with v or V;
\* NoNum is its Err.
REGISTER_WORDS ==
    ("v0" :> 0) @@ ("v1" :> 1) @@ ("v2" :> 2) @@ ("va" :> 10) @@ ("vf" :> 15) @@
    ("V0" :> 0) @@ ("V1" :> 1) @@ ("VA" :> 10) @@ ("VF" :> 15) @@
    ("vg" :> NoNum) @@ ("v10" :> 1)

starts_with_v(word) == word \in DOMAIN REGISTER_WORDS

word_len_is_2(word) == word # "v10"

fits_12bit(val) == BitAnd(val, \h0FFF) = val

fits_8bit(val) == BitAnd(val, \hFF) = val

\* What one pass of the REPL loop leaves: the machine state, whether the loop
\* goes on ("continue") or debug_terminal returns ("true" / "false"), and
\* last_debug_command.
Outcome(s, ret, last) == [s |-> s, ret |-> ret, last |-> last]

cmd_continue(s, args, last) ==
    IF Len(args) > 1 THEN Outcome(s, "continue", last)
    ELSE Outcome(s, "false", <<>>)

cmd_next_leaving(s, args) ==
    IF Len(args) > 1 THEN Outcome(s, "continue", args)
    ELSE Outcome(s, "false", args)

cmd_next(s, args) ==
    IF Len(args) > 1 THEN Outcome(s, "continue", args)
    ELSE Outcome(s, "true", args)

cmd_jump(s, args) ==
    IF Len(args) # 2 THEN Outcome(s, "continue", args)
    ELSE LET addr == str_to_num(args[2])
         IN  IF addr = NoNum THEN Outcome(s, "continue", args)
             ELSE Outcome(set_pc(s, as_u16(addr)), "continue", args)

cmd_set(s, args) ==
    IF Len(args) # 3 THEN Outcome(s, "continue", args)
    ELSE LET val == str_to_num(args[3])
             target == args[2]
         IN  IF val = NoNum THEN Outcome(s, "continue", args)
             ELSE IF starts_with_v(target)
             THEN IF ~word_len_is_2(target) \/ REGISTER_WORDS[target] = NoNum
                     \/ ~fits_8bit(val)
                  THEN Outcome(s, "continue", args)
                  ELSE Outcome(set_register(s, as_u8(REGISTER_WORDS[target]), as_u8(val)),
                               "continue", args)
             ELSE IF target \in {"i", "index"}
             THEN IF ~fits_12bit(val) THEN Outcome(s, "continue", args)
                  ELSE Outcome(set_i(s, as_u16(val)), "continue", args)
             ELSE IF target = "pc"
             THEN IF ~fits_12bit(val + 2) THEN Outcome(s, "continue", args)
                  ELSE Outcome(set_pc(s, as_u16(val + 2)), "continue", args)
             ELSE IF target \in {"d", "delay"}
             THEN IF ~fits_8bit(val) THEN Outcome(s, "continue", args)
                  ELSE Outcome(set_delay_timer(s, as_u8(val)), "continue", args)
             ELSE IF target \in {"s", "sound"}
             THEN IF ~fits_8bit(val) THEN Outcome(s, "continue", args)
                  ELSE Outcome(set_sound_timer(s, as_u8(val)), "continue", args)
             ELSE LET addr == str_to_num(target)
                  IN  IF addr = NoNum \/ ~fits_12bit(addr) \/ ~fits_8bit(val)
                      THEN Outcome(s, "continue", args)
                      ELSE Outcome(set_memory_u8(s, as_u16(addr), as_u8(val)),
                                   "continue", args)

\* p | print: only the read of a memory address changes anything, by its
\* panic when the address, cut to 16 bits, is outside the memory.
cmd_print(s, args) ==
    IF Len(args) # 2 THEN Outcome(s, "continue", args)
    ELSE IF starts_with_v(args[2]) THEN Outcome(s, "continue", args)
    ELSE IF args[2] \in {"i", "index", "pc", "d", "delay", "s", "sound"}
    THEN Outcome(s, "continue", args)
    ELSE LET addr == str_to_num(args[2])
         IN  IF addr = NoNum \/ is_12bit(as_u16(addr)) THEN Outcome(s, "continue", args)
             ELSE Outcome(Panic(s), "continue", args)

\* x | examine n addr: reads the n bytes from addr on.
cmd_examine(s, args, last) ==
    IF Len(args) # 3 THEN Outcome(s, "continue", last)
    ELSE LET n == str_to_num(args[2])
             addr == str_to_num(args[3])
         IN  IF n = NoNum \/ addr = NoNum THEN Outcome(s, "continue", last)
             ELSE IF \A i \in 0..(n - 1) : is_12bit(as_u16(addr + i))
             THEN Outcome(s, "continue", last)
             ELSE Outcome(Panic(s), "continue", last)

\* b | breakpoint: the set of breakpoints after the command.
cmd_breakpoint(bps, args) ==
    IF Len(args) < 2 THEN bps
    ELSE IF args[2] \in {"l", "list"} THEN bps
    ELSE IF args[2] \in {"r", "remove"}
    THEN IF Len(args) # 3 THEN bps
         ELSE LET addr == str_to_num(args[3])
              IN  IF addr = NoNum \/ ~fits_12bit(addr) THEN bps
                  ELSE bps \ {as_u16(addr)}
    ELSE IF Len(args) # 2 THEN bps
         ELSE LET addr == str_to_num(args[2])
              IN  IF addr = NoNum \/ ~fits_12bit(addr) THEN bps
                  ELSE bps \cup {as_u16(addr)}

cmd_push(s, args) ==
    IF Len(args) # 2 THEN Outcome(s, "continue", args)
    ELSE LET addr == str_to_num(args[2])
         IN  IF addr = NoNum \/ ~fits_12bit(addr) THEN Outcome(s, "continue", args)
             ELSE Outcome(stack_push(s, as_u16(addr)), "continue", args)

cmd_pop_leaving(s, args) ==
    IF s.STACK = <<>> THEN Outcome(s, "false", args)
    ELSE Outcome(stack_pop(s), "false", args)

cmd_pop(s, args) ==
    IF s.STACK = <<>> THEN Outcome(s, "continue", args)
    ELSE Outcome(stack_pop(s), "continue", args)

\* The match on args[0]; line is the command line after the blank-line replay.
debug_dispatch(s, line, last) ==
    LET word == IF line = <<>> THEN "" ELSE line[1]
    IN  CASE word \in {"h", "help"} -> Outcome(s, "continue", line)
          [] word \in {"c", "continue"} -> cmd_continue(s, line, last)
          [] word \in {"n", "next"} -> cmd_next(s, line)
          [] word \in {"j", "jump"} -> cmd_jump(s, line)
          [] word \in {"s", "set"} -> cmd_set(s, line)
          [] word = "push" -> cmd_push(s, line)
          [] word = "pop" -> cmd_pop(s, line)
          [] word \in {"p", "print"} -> cmd_print(s, line)
          [] word \in {"b", "breakpoint"} -> Outcome(s, "continue", line)
          [] word \in {"x", "examine"} -> cmd_examine(s, line, last)
          [] OTHER -> Outcome(s, "continue", last)

history_push_always(hist, line) == Append(hist, line)

history_push(hist, line) ==
    IF hist = <<>> \/ hist[Len(hist)] # line THEN Append(hist, line) ELSE hist

\* What get_line puts before the entry it injects on Down: the escape
\* sequence that clears the line, and the prompt (it ends with the space
\* that separates it from the first word of the entry).
CLEAR_LINE_PROMPT == "\\x1b[2K\\r>"

\* One iteration of the loop of get_line in which readline returns None:
\* the keys are sampled, a press edge of Up and of Down each injects a text
\* into the reader.  With an empty history an edge only clears the line and
\* the iteration is cut short.  history[len - idx] of the code is
\* history[len - idx + 1] here, sequences being indexed from 1.
get_line(samples, max) ==
    /\ pos = "repl"
    /\ \E keys \in samples :
         LET up == "Up" \in keys /\ "Up" \notin dbg_last_pressed_keys
             down == "Down" \in keys /\ "Down" \notin dbg_last_pressed_keys
             len == Len(history)
             idx_up == IF up
                       THEN (IF current_history_idx + 1 < len
                             THEN current_history_idx + 1 ELSE len)
                       ELSE current_history_idx
             sent_up == IF up THEN << history[len - idx_up + 1] >> ELSE <<>>
             idx_less == saturating_sub(idx_up, 1)
             idx_down == IF ~down THEN idx_up
                         ELSE IF idx_less = len THEN saturating_sub(idx_less, 1)
                         ELSE idx_less
             a == len - idx_down
             sent_down == IF down
                          THEN << <<CLEAR_LINE_PROMPT>> \o
                                  (IF a < len THEN history[len - idx_down + 1] ELSE <<>>) >>
                          ELSE <<>>
         IN  IF (up \/ down) /\ history = <<>>
             THEN UNCHANGED <<rdvars, linevars>>
             ELSE /\ Len(injections) + Len(sent_up \o sent_down) <= max
                  /\ contents_chan' = contents_chan \o sent_up \o sent_down
                  /\ injections' = injections \o sent_up \o sent_down
                  /\ current_history_idx' = idx_down
                  /\ dbg_last_pressed_keys' = keys
                  /\ UNCHANGED <<stdin_typed, stdin_pending, reader_pos, reader_buf,
                                 lines_chan, lines_read>>
    /\ UNCHANGED <<vmvars, asmvars>>

\* One pass of the loop of debug_terminal on a line read from the prompt, and,
\* when it returns, the end of the loop iteration of run() that called it.
DebugCommand(lines, max_stack) ==
    /\ pos = "repl"
    /\ \E entered \in lines :
         LET line == IF entered = <<>> THEN last_debug_command ELSE entered
             r == debug_dispatch(Sys, line, last_debug_command)
         IN  /\ Len(history_push(history, line)) <= MaxHistory
             /\ Len(r.s.STACK) <= max_stack
             /\ history' = history_push(history, line)
             /\ breakpoints' = IF line # <<>> /\ line[1] \in {"b", "breakpoint"}
                               THEN cmd_breakpoint(breakpoints, line)
                               ELSE breakpoints
             /\ last_debug_command' = r.last
             /\ current_history_idx' = 0
             /\ MEMORY' = r.s.MEMORY
             /\ PC' = r.s.PC
             /\ I' = r.s.I
             /\ STACK' = r.s.STACK
             /\ DELAY_TIMER' = r.s.DELAY_TIMER
             /\ SOUND_TIMER' = r.s.SOUND_TIMER
             /\ REGISTERS' = r.s.REGISTERS
             /\ IF r.s.panicked
                THEN /\ pos' = "aborted"
                     /\ panic_msg' = <<"debug_terminal", line[1]>>
                     /\ UNCHANGED <<is_debug, n_instructions_executed>>
                ELSE IF r.ret = "continue"
                THEN /\ pos' = "repl"
                     /\ UNCHANGED <<is_debug, n_instructions_executed, panic_msg>>
                ELSE /\ pos' = "loop"
                     /\ UNCHANGED panic_msg
                     /\ is_debug' = (r.ret = "true")
                     /\ n_instructions_executed' = n_instructions_executed + 1
    /\ UNCHANGED <<DISPLAY, pressed_keys, last_pressed_keys, last_instructions,
                   old_register_state, old_i_state, old_display_state, timer_log,
                   rdvars, dbg_last_pressed_keys, asmvars>>

(***************************************************************************)
(* Spec: the address registers.  ROMs (words in hexadecimal) that drive    *)
(* PC and I to the top of memory, and debugger lines that try to store     *)
(* 12-bit and wider values.                                                *)
(***************************************************************************)
(* stdin.rs: the reader thread and the two calls of the main thread.  One  *)
(* iteration of the thread's loop is two steps: the try_recv on the        *)
(* contents channel, and the blocking fill_buf with what follows it.       *)
(***************************************************************************)
\* buf.find("\n"): the 1-based position of the first newline, 0 for None.
find_newline(buf) ==
    IF \E k \in 1..Len(buf) : buf[k] = "\n"
    THEN CHOOSE k \in 1..Len(buf) : buf[k] = "\n" /\ \A j \in 1..(k - 1) : buf[j] # "\n"
    ELSE 0

\* The end of an iteration: the line sent, if any, and the buffer kept.
publish(buf) ==
    LET nl == find_newline(buf)
        rest == SubSeq(buf, nl, Len(buf))
    IN  IF nl = 0 THEN [sent |-> <<>>, buf |-> buf]
        ELSE [sent |-> <<SubSeq(buf, 1, nl - 1)>>,
              buf |-> IF Len(rest) > 1 THEN rest ELSE <<>>]

\* if let Ok(s) = rx.try_recv() { buf = s; }
ReaderRecv ==
    /\ reader_pos = "recv"
    /\ reader_pos' = "fill"
    /\ IF contents_chan # <<>>
       THEN /\ reader_buf' = Head(contents_chan)
            /\ contents_chan' = Tail(contents_chan)
       ELSE UNCHANGED <<reader_buf, contents_chan>>
    /\ UNCHANGED <<vmvars, linevars, asmvars, stdin_typed, stdin_pending, lines_chan, lines_read, injections>>

\* fill_buf returns some of the input that has arrived, at least one byte;
\* the thread appends it, sends at most one line and trims the buffer.
ReaderFill ==
    /\ reader_pos = "fill"
    /\ \E len \in 1..Len(stdin_pending) :
         LET r == publish(reader_buf \o SubSeq(stdin_pending, 1, len))
         IN  /\ stdin_pending' = SubSeq(stdin_pending, len + 1, Len(stdin_pending))
             /\ lines_chan' = lines_chan \o r.sent
             /\ reader_buf' = r.buf
    /\ reader_pos' = "recv"
    /\ UNCHANGED <<vmvars, linevars, asmvars, stdin_typed, contents_chan, lines_read, injections>>

\* str::replace: every non-overlapping occurrence of the two-character
\* pattern removed, scanning from the left.
RECURSIVE remove_all(_, _)
remove_all(str, pat) ==
    IF Len(str) < 2 THEN str
    ELSE IF SubSeq(str, 1, 2) = pat THEN remove_all(SubSeq(str, 3, Len(str)), pat)
    ELSE <<str[1]>> \o remove_all(Tail(str), pat)

\* readline when the channel holds a line.
readline ==
    /\ lines_chan # <<>>
    /\ lines_read' = Append(lines_read,
                            remove_all(remove_all(Head(lines_chan), <<"[", "A">>), <<"[", "B">>))
    /\ lines_chan' = Tail(lines_chan)
    /\ UNCHANGED <<vmvars, linevars, asmvars, stdin_typed, stdin_pending, reader_pos, reader_buf, contents_chan,
                   injections>>

set_contents(contents, max) ==
    /\ Len(injections) < max
    /\ \E h \in contents :
         /\ contents_chan' = Append(contents_chan, h)
         /\ injections' = Append(injections, h)
    /\ UNCHANGED <<vmvars, linevars, asmvars, stdin_typed, stdin_pending, reader_pos, reader_buf, lines_chan,
                   lines_read>>

\* One more character arrives on standard input.
Type(chars, max) ==
    /\ Len(stdin_typed) < max
    /\ \E c \in chars :
         /\ stdin_typed' = Append(stdin_typed, c)
         /\ stdin_pending' = Append(stdin_pending, c)
    /\ UNCHANGED <<vmvars, linevars, asmvars, reader_pos, reader_buf, contents_chan, lines_chan, lines_read,
                   injections>>

(***************************************************************************)
(* main.rs: the assembler.  A token is <<"Ins", mnemonic>>, <<"Reg", r>>   *)
(* or <<"Val", n>>.  Rejected stands for the Err of validate_addr and the  *)
(* panic of the expect on it; a panic of parse_line is <<"panic">>.        *)
(***************************************************************************)
Rejected == -1

\* Ok(mask) when val has no bit outside the mask, Err otherwise.
validate_addr(val, mask) == IF BitAnd(val, mask) = val THEN mask ELSE Rejected

validate_u4(val) == validate_addr(val, \h0F)

validate_u8(val) == validate_addr(val, \hFF)

validate_u12(val) == validate_addr(val, \h0FFF)

\* parse_line on a line whose instruction is jmp, call or jo.
parse_line(lines) ==
    /\ \E line \in lines :
         /\ asm_line' = line
         /\ asm_out' =
              IF Len(line) # 2 \/ line[2][1] # "Val" THEN <<"panic">>
              ELSE LET nnn == validate_u12(line[2][2])
                       final_instruction == CASE line[1][2] = "jmp" -> "Jump"
                                              [] line[1][2] = "call" -> "SubroutineCall"
                                              [] line[1][2] = "jo" -> "JumpOffset"
                   IN  IF nnn = Rejected THEN <<"panic">> ELSE <<final_instruction, nnn>>
    /\ UNCHANGED <<vmvars, rdvars, linevars>>

(***************************************************************************)
\* 60FF, BFFF: V0 = 0xFF, then jump to 0xFFF + V0.
RomJumpOffset == << \h60FF, \hBFFF >>
\* 2204, 1202, 00EE: call 0x204, which returns; then spin.
RomReturn == << \h2204, \h1202, \h00EE >>
\* 6005, AFFD, F01E: V0 = 5, I = 0xFFD, I += V0.
RomIndex == << \h6005, \hAFFD, \hF01E >>
\* 1FFE: jump to the last word of memory, which is then fetched.
RomJumpTop == << \h1FFE >>

Roms == {RomJumpOffset, RomReturn, RomIndex, RomJumpTop}

KeySamples == {{}, {"Escape"}}

CommandLines ==
    { <<"n">>, <<"pop">>, <<"push", "0xFFF">>, <<"push", "0x1000">>,
      <<"j", "0x1234">>, <<"j", "0x10200">>,
      <<"s", "i", "0xFFF">>, <<"s", "i", "0x1000">> }

Init == InitWith(Roms)

Next ==
    \/ Step(KeySamples, MaxSteps)
    \/ Tick
    \/ DebugCommand(CommandLines, MaxStackSmall)

Spec == Init /\ [][Next]_vars

(***************************************************************************)
(* The address registers (PC, I, the stack).                               *)
(***************************************************************************)
AddressesAre12Bit ==
    /\ PC < 4096
    /\ I < 4096
    /\ \A i \in 1..Len(STACK) : STACK[i] < 4096

\* The debugger line a step of the REPL has read.
EnteredLine == history'[Len(history')]

\* The REPL reads a push or a set of PC or I with a value wider than 12 bits.
DebuggerStoresWide ==
    /\ pos = "repl"
    /\ history' # <<>>
    /\ \/ /\ Len(EnteredLine) = 2
          /\ EnteredLine[1] = "push"
          /\ str_to_num(EnteredLine[2]) > 4095
       \/ /\ Len(EnteredLine) = 3
          /\ EnteredLine[1] \in {"s", "set"}
          /\ EnteredLine[2] \in {"i", "pc"}
          /\ str_to_num(EnteredLine[3]) > 4095

\* The REPL reads a jump to an address wider than 12 bits.
DebuggerJumpsWide ==
    /\ pos = "repl"
    /\ history' # <<>>
    /\ Len(EnteredLine) = 2
    /\ EnteredLine[1] \in {"j", "jump"}
    /\ str_to_num(EnteredLine[2]) > 4095

\* The loop is about to run an instruction that computes a PC or an I wider
\* than 12 bits: the fetch at the last word, a JumpOffset or an AddToIndex.
InstructionStoresWide ==
    /\ pos = "loop"
    /\ pos' # "loop"
    /\ \/ PC + 2 > 4095
       \/ LET instruction == decode(get_memory_u16(Sys, PC))
          IN  \/ /\ instruction[1] = "JumpOffset"
                 /\ instruction[2] + REGISTERS[V0] > 4095
              \/ /\ instruction[1] = "AddToIndex"
                 /\ I + REGISTERS[instruction[2]] > 4095

RomCall == << \h2200 >>
\* 2204, 1200, 00EE: call 0x204, which returns; then start again.
RomCallReturn == << \h2204, \h1200, \h00EE >>

\* 2206, 1202, 00EE, 2204, 00EE: call 0x206, which calls 0x204; both return;
\* then spin at 0x202.
RomNested == << \h2206, \h1202, \h00EE, \h2204, \h00EE >>

StackRoms == {RomCall, RomCallReturn, RomNested}

StackLines == { <<"n">>, <<"pop">>, <<"push", "0x202">> }

InitStack == InitWith(StackRoms)

NextStack ==
    \/ Step(KeySamples, MaxStepsStack)
    \/ Tick
    \/ DebugCommand(StackLines, MaxStack)

SpecStack == InitStack /\ [][NextStack]_vars

\* C2: the stack never holds more than STACK_SIZE (16) entries.
C2_StackBounded == Len(STACK) <= STACK_SIZE

(***************************************************************************)
(* SpecAlu: the register-to-register instructions 8XYk.  Each ROM loads    *)
(* VX and VY with two bytes and runs one 8XYk on them.                     *)
(***************************************************************************)
AluBytes == {0, 1, 2, 15, 127, 128, 254, 255}
AluRegs == { <<1, 2>>, <<3, 4>>, <<2, 2>>, <<15, 1>>, <<1, 15>>, <<15, 15>> }
AluOps == {0, 1, 2, 3, 4, 5, 6, 7, 14}

\* 6Xaa, 6Ybb, 8XYk
AluRoms ==
    { << \h6000 + p[1] * 256 + a,
         \h6000 + p[2] * 256 + b,
         \h8000 + p[1] * 256 + p[2] * 16 + k >> :
        p \in AluRegs, a \in AluBytes, b \in AluBytes, k \in AluOps }

\* 6Xaa, 6Fbb, 7Xnn
AddRoms ==
    { << \h6000 + x * 256 + a, \h6F00 + b, \h7000 + x * 256 + nn >> :
        x \in {1, 15}, a \in AluBytes, b \in AluBytes, nn \in AluBytes }

InitAlu == InitWith(AluRoms \cup AddRoms)

NextAlu ==
    \/ Step({{}}, MaxStepsAlu)
    \/ Tick

SpecAlu == InitAlu /\ [][NextAlu]_vars

\* The instruction the loop has just executed, and whether it has.
Executed == last_instructions[1][3]
JustExecuted(op) == pos = "timers" /\ Executed[1] = op

\* C3: RegAdd leaves in VX (X other than F) the sum of the old VX and VY
\* modulo 256, and in VF 1 exactly when that sum exceeds 255.
C3_RegAddWraps ==
    JustExecuted("RegAdd") =>
        LET vx == Executed[2]
            vy == Executed[3]
            sum == old_register_state[vx] + old_register_state[vy]
        IN  /\ vx # VF => REGISTERS[vx] = sum % 256
            /\ REGISTERS[VF] = IF sum > 255 THEN 1 ELSE 0

\* C10: Subtract1 leaves in VX (X other than F) the old VX - VY modulo 256 and
\* in VF 1 exactly when VX >= VY; Subtract2 leaves VY - VX modulo 256 and in
\* VF 1 exactly when VY >= VX.
C10_SubtractFlags ==
    /\ JustExecuted("Subtract1") =>
        LET vx == Executed[2]
            vy == Executed[3]
            a == old_register_state[vx]
            b == old_register_state[vy]
        IN  /\ vx # VF => REGISTERS[vx] = (a - b) % 256
            /\ REGISTERS[VF] = IF a >= b THEN 1 ELSE 0
    /\ JustExecuted("Subtract2") =>
        LET vx == Executed[2]
            vy == Executed[3]
            a == old_register_state[vx]
            b == old_register_state[vy]
        IN  /\ vx # VF => REGISTERS[vx] = (b - a) % 256
            /\ REGISTERS[VF] = IF b >= a THEN 1 ELSE 0

\* Subtract1 on V3 = 1 and V4 = 2 has left V3 = 0xFF and VF = 0.
C10_Witness ==
    /\ JustExecuted("Subtract1")
    /\ Executed = <<"Subtract1", 3, 4>>
    /\ old_register_state[3] = 1
    /\ old_register_state[4] = 2
    /\ REGISTERS[3] = 255
    /\ REGISTERS[VF] = 0

(***************************************************************************)
(* SpecDraw: the Draw instruction.  Each ROM points I at a sprite, draws   *)
(* its first three rows at (0, 0) on step 1 (just after a vertical blank), *)
(* loads VX and VY and draws N rows at (VX, VY); that second Draw is       *)
(* fetched on step 4 and waits for step 13.                                *)
(***************************************************************************)
SpriteSolid ==
    << \hFFFF, \hFFFF, \hFFFF, \hFFFF, \hFFFF, \hFFFF, \hFFFF, \hFFFF >>
SpriteMixed ==
    << \h813C, \h0180, \hA500, \hFF18, \h8142, \h2418, \h0F0F, \hF0AA >>
Sprites == {SpriteSolid, SpriteMixed}

DrawRegs == { <<1, 2>>, <<3, 3>>, <<15, 2>>, <<1, 15>> }
DrawXs == {0, 5, 60, 67, 255}
DrawYs == {0, 2, 30, 33, 255}
DrawRows == {0, 1, 3, 15}

\* A20C, D003, 6Xaa, 6Ybb, DXYN, 120A, then the sprite at 0x20C.
DrawRoms ==
    { << \hA20C, \hD003,
         \h6000 + p[1] * 256 + a,
         \h6000 + p[2] * 256 + b,
         \hD000 + p[1] * 256 + p[2] * 16 + rows,
         \h120A >> \o sprite :
        p \in DrawRegs, a \in DrawXs, b \in DrawYs, rows \in DrawRows,
        sprite \in Sprites }

InitDraw == InitWith(DrawRoms)

NextDraw ==
    \/ Step({{}}, MaxStepsDraw)
    \/ Tick

SpecDraw == InitDraw /\ [][NextDraw]_vars

\* The loop has just executed a Draw on a step where Draw commits.
DrawCommitted ==
    /\ JustExecuted("Draw")
    /\ n_instructions_executed % VSYNC_PERIOD = 1

\* Bit c (0 is the most significant) of a sprite byte.
SpriteBit(byte, c) == BitAnd(byte \div (2 ^ (7 - c)), 1) = 1

\* The pixels an N-row sprite at memory address loc covers with a set bit when
\* its top-left corner is at (x, y) and it is clipped at the display's edges.
SpritePixels(x, y, loc, rows) ==
    { <<x + c, y + r>> : <<r, c>> \in
        { rc \in (0..(rows - 1)) \X (0..7) :
            /\ x + rc[2] < DISPLAY_WIDTH
            /\ y + rc[1] < DISPLAY_HEIGHT
            /\ SpriteBit(mem_read(MEMORY, loc + rc[1]), rc[2]) } }

\* The pixels that differ between two displays.
Flipped(before, after) == (before \ after) \cup (after \ before)

\* C4: a committed Draw(X, Y, N) flips exactly the pixels (x + c, y + r),
\* r < N, c < 8, x + c < 64, y + r < 32, for which bit 7 - c of memory[I + r]
\* is set, where x = VX mod 64 and y = VY mod 32; nothing wraps around.
C4_DrawXorsClipped ==
    DrawCommitted =>
        Flipped(old_display_state, DISPLAY) =
            SpritePixels(old_register_state[Executed[2]] % DISPLAY_WIDTH,
                         old_register_state[Executed[3]] % DISPLAY_HEIGHT,
                         I, Executed[4])

\* A committed Draw whose X and Y are both other than F flips exactly the
\* sprite's clipped pixels at (VX mod 64, VY mod 32).
DrawXorsClippedOffFlag ==
    (DrawCommitted /\ Executed[2] # VF /\ Executed[3] # VF)
        => C4_DrawXorsClipped

\* C5: after a committed Draw VF is 1 if some pixel went from on to off and 0
\* otherwise, whatever VF held before (and so 0 when N = 0).
C5_CollisionFlag ==
    DrawCommitted =>
        REGISTERS[VF] = IF old_display_state \ DISPLAY # {} THEN 1 ELSE 0

\* A committed Draw turned some pixels off and others on and left VF = 1.
C5_Witness ==
    /\ DrawCommitted
    /\ old_display_state \ DISPLAY # {}
    /\ DISPLAY \ old_display_state # {}
    /\ REGISTERS[VF] = 1

\* C6: the origin of a committed Draw(X, Y, N) is (VX mod 64, VY mod 32) for
\* the values VX and VY held before the instruction, also when X or Y is F:
\* every flipped pixel lies in the 8 x N rectangle at that origin, and the
\* first row of the rectangle shows the first sprite byte.
C6_DrawOrigin ==
    DrawCommitted =>
        LET x == old_register_state[Executed[2]] % DISPLAY_WIDTH
            y == old_register_state[Executed[3]] % DISPLAY_HEIGHT
            flipped == Flipped(old_display_state, DISPLAY)
        IN  /\ \A p \in flipped :
                 /\ p[1] \in x..(x + 7)
                 /\ p[2] \in y..(y + Executed[4] - 1)
            /\ Executed[4] > 0 =>
                 \A c \in 0..7 :
                    (x + c < DISPLAY_WIDTH /\ SpriteBit(mem_read(MEMORY, I), c))
                        => <<x + c, y>> \in flipped

\* C7: a Draw executed on a step n with n mod 12 # 1 changes nothing of the
\* display, the registers, I, the memory, the stack and the timers, and
\* leaves PC at the address of that Draw.
C7_GatedDrawIsInert ==
    [][ ( /\ pos = "loop"
          /\ pos' = "timers"
          /\ decode(get_memory_u16(Sys, PC))[1] = "Draw"
          /\ n_instructions_executed % VSYNC_PERIOD # 1 )
        => /\ UNCHANGED <<DISPLAY, REGISTERS, I, MEMORY, STACK,
                          DELAY_TIMER, SOUND_TIMER>>
           /\ PC' = PC ]_vars

\* A Draw with VF loaded and pixels lit was executed off the vertical blank.
C7_Witness ==
    /\ JustExecuted("Draw")
    /\ n_instructions_executed % VSYNC_PERIOD # 1
    /\ PC = last_instructions[1][1]
    /\ DISPLAY # {}
    /\ REGISTERS[VF] # 0

(***************************************************************************)
(* SpecKeys: the keyboard.  The ROM waits for a key with GetKey; every     *)
(* step samples one of a few sets of held keys.                            *)
(***************************************************************************)
\* FX0A, 1202: wait for a key into VX, then spin.
KeyRoms == { << \hF10A, \h1202 >>, << \hFF0A, \h1202 >> }

HeldKeys ==
    { {}, {"Key1"}, {"Q"}, {"Key1", "Q"}, {"Escape"}, {"Key1", "Escape"} }

KeyLines == { <<"n">>, <<"c">> }

\* 61kk, E19E or E1A1, 1204, 1206: load a key code, skip on it, spin.
SkipCodes == {1, 4, 15, 16, 255}
SkipRoms ==
    { << \h6100 + code, \hE100 + op, \h1204, \h1206 >> :
        code \in SkipCodes, op \in { \h9E, \hA1 } }

InitKeys == InitWith(KeyRoms \cup SkipRoms)

NextKeys ==
    \/ Step(HeldKeys, MaxStepsKeys)
    \/ Tick
    \/ DebugCommand(KeyLines, MaxStackSmall)

SpecKeys == InitKeys /\ [][NextKeys]_vars

\* The keys held at the previous sample and not at the current one.
ReleasedKeys == last_pressed_keys \ pressed_keys

\* C8: GetKey writes VX and moves on only on a release edge.  With no key
\* released it leaves every register alone and PC at its own address; with
\* one released it writes that key's code to VX, leaves the other registers
\* alone and PC past itself.
C8_GetKeyOnReleaseEdge ==
    JustExecuted("GetKey") =>
        LET vx == Executed[2]
            addr == last_instructions[1][1]
        IN  IF ReleasedKeys = {}
            THEN /\ REGISTERS = old_register_state
                 /\ PC = addr
            ELSE /\ PC = addr + 2
                 /\ \E key \in ReleasedKeys \cap DOMAIN KEYPRESS_MAP :
                      REGISTERS = [old_register_state EXCEPT ![vx] = KEYPRESS_MAP[key]]

\* '1' was held at the previous sample and nothing is held now: GetKey has
\* written 1 to V1 and PC is 0x202.
C8_Witness ==
    /\ JustExecuted("GetKey")
    /\ Executed[2] = 1
    /\ last_pressed_keys = {"Key1"}
    /\ pressed_keys = {}
    /\ REGISTERS[1] = 1
    /\ PC = 514

\* C9: GetKey is total over the sampled key sets: it never aborts the VM, and
\* what it writes to VX is the code, in 0..15, of a released key.
C9_GetKeyTotal ==
    /\ ~(pos = "aborted" /\ panic_msg = <<"execute", "GetKey">>)
    /\ (JustExecuted("GetKey") /\ ReleasedKeys # {}) =>
          /\ REGISTERS[Executed[2]] \in 0..15
          /\ \E key \in ReleasedKeys \cap DOMAIN KEYPRESS_MAP :
                REGISTERS[Executed[2]] = KEYPRESS_MAP[key]

(***************************************************************************)
(* The flag register and the frame of the arithmetic instructions.         *)
(***************************************************************************)
AluFlagOps ==
    { "BinaryOr", "BinaryAnd", "BinaryXor", "RegAdd", "Subtract1",
      "ShiftRight", "Subtract2", "ShiftLeft" }

\* The flag of an 8XYk on the values a of VX and b of VY.
AluFlag(op, a, b) ==
    CASE op \in {"BinaryOr", "BinaryAnd", "BinaryXor"} -> 0
      [] op = "RegAdd" -> IF a + b > 255 THEN 1 ELSE 0
      [] op = "Subtract1" -> IF a >= b THEN 1 ELSE 0
      [] op = "Subtract2" -> IF b >= a THEN 1 ELSE 0
      [] op = "ShiftRight" -> b % 2
      [] op = "ShiftLeft" -> b \div 128

\* The registers before the instruction, with VE loaded with the old VF.
FlagCopiedToVE == [old_register_state EXCEPT ![14] = old_register_state[VF]]

\* C11: for 8XY1..8XY7 and 8XYE the flag is written after the result.  The
\* final VF is the flag of the old VX and VY, also when X = F or Y = F; and
\* with Y = F the result in VX is the one the instruction computes from any
\* other register that holds the old VF.
C11_FlagWrittenLast ==
    (pos = "timers" /\ Executed[1] \in AluFlagOps) =>
        LET op == Executed[1]
            vx == Executed[2]
            vy == Executed[3]
        IN  /\ REGISTERS[VF] =
                  AluFlag(op, old_register_state[vx], old_register_state[vy])
            /\ (vy = VF /\ vx # VF) =>
                  \A r \in execute([Sys EXCEPT !.REGISTERS = FlagCopiedToVE],
                                   <<op, vx, 14>>, {}, {}, 0) :
                      REGISTERS[vx] = r.REGISTERS[vx]

\* VF += V1 with VF = 0xFF and V1 = 0x0F has left the carry, 1, in VF, and
\* not the sum.
C11_Witness ==
    /\ pos = "timers"
    /\ Executed = <<"RegAdd", 15, 1>>
    /\ old_register_state[VF] = 255
    /\ old_register_state[1] = 15
    /\ REGISTERS[VF] = 1

\* The instruction the loop is about to fetch, when the fetch does not panic.
Fetched == decode(get_memory_u16(Sys, PC))

\* The registers an arithmetic instruction may write.
ArithmeticTargets(instruction) ==
    IF instruction[1] \in {"Add", "RegSet"} THEN {instruction[2]}
    ELSE {instruction[2], VF}

\* C12: a step that executes 7XNN, 8XY0, 8XY1..8XY7 or 8XYE does not abort,
\* changes no register but VX (and VF for 8XY1..8XYE), and leaves I, memory,
\* the stack, the timers and the display alone and PC just past the
\* instruction.
C12_ArithmeticFrame ==
    [][ ( /\ pos = "loop"
          /\ pos' # "loop"
          /\ get_memory_u16_ok(PC)
          /\ Fetched[1] \in AluFlagOps \cup {"Add", "RegSet"} )
        => /\ pos' = "timers"
           /\ PC' = PC + 2
           /\ UNCHANGED <<MEMORY, I, STACK, DELAY_TIMER, SOUND_TIMER, DISPLAY>>
           /\ \A r \in Registers :
                 REGISTERS'[r] # REGISTERS[r] => r \in ArithmeticTargets(Fetched) ]_vars

\* 7XNN has wrapped VX around and left a non-zero VF as it was.
C12_Witness ==
    /\ pos = "timers"
    /\ Executed[1] = "Add"
    /\ Executed[2] # VF
    /\ old_register_state[Executed[2]] + Executed[3] > 255
    /\ REGISTERS[Executed[2]] = (old_register_state[Executed[2]] + Executed[3]) % 256
    /\ old_register_state[VF] # 0
    /\ REGISTERS[VF] = old_register_state[VF]

(***************************************************************************)
(* Subroutines.                                                            *)
(***************************************************************************)
\* SpecCalls: the ROMs and debugger lines of SpecStack over a few steps.
NextCalls ==
    \/ Step(KeySamples, MaxSteps)
    \/ Tick
    \/ DebugCommand(StackLines, MaxStackSmall)

SpecCalls == InitStack /\ [][NextCalls]_vars

\* C13: SubroutineCall(NNN) fetched from a pushes a + 2 and sets PC to NNN;
\* SubroutineReturn pops the last pushed address into PC and leaves the
\* entries below it as they were (so a call and its return restore PC to
\* a + 2 and the stack, at any depth); on an empty stack it aborts the VM.
C13_CallReturn ==
    [][ ( /\ pos = "loop"
          /\ pos' # "loop"
          /\ get_memory_u16_ok(PC)
          /\ PC + 2 < 4096 )
        => /\ Fetched[1] = "SubroutineCall" =>
                /\ pos' = "timers"
                /\ STACK' = Append(STACK, PC + 2)
                /\ PC' = Fetched[2]
           /\ (Fetched[1] = "SubroutineReturn" /\ STACK # <<>>) =>
                /\ pos' = "timers"
                /\ PC' = STACK[Len(STACK)]
                /\ STACK' = SubSeq(STACK, 1, Len(STACK) - 1)
           /\ (Fetched[1] = "SubroutineReturn" /\ STACK = <<>>) =>
                pos' = "aborted" ]_vars

\* The inner return of two nested calls has come back to 0x208 with the
\* outer return address 0x202 still on the stack.
C13_Witness ==
    /\ pos = "timers"
    /\ Executed = <<"SubroutineReturn">>
    /\ Len(last_instructions) = 3
    /\ last_instructions[2][3] = <<"SubroutineCall", 516>>
    /\ last_instructions[3][3] = <<"SubroutineCall", 518>>
    /\ PC = 520
    /\ STACK = <<514>>

(***************************************************************************)
(* Jumps and key skips.                                                    *)
(***************************************************************************)
\* C14: JumpOffset(NNN) sets PC to (NNN + V0) mod 0x1000.
C14_JumpOffsetWraps ==
    [][ ( /\ pos = "loop"
          /\ pos' # "loop"
          /\ get_memory_u16_ok(PC)
          /\ PC + 2 < 4096
          /\ Fetched[1] = "JumpOffset" )
        => /\ pos' = "timers"
           /\ PC' = (Fetched[2] + REGISTERS[V0]) % 4096 ]_vars

\* The key code a skip-on-key instruction has just tested.
TestedCode == old_register_state[Executed[2]]

\* Whether the host key of a code is held in the current sample.
CodeHeld(code) ==
    /\ code \in DOMAIN REVERSE_KEYPRESS_MAP
    /\ REVERSE_KEYPRESS_MAP[code] \in pressed_keys

\* C15: SkipIfKey never aborts and skips exactly when VX is a mapped code
\* whose key is held; SkipIfNotKey completes only on a mapped code (it aborts
\* on any other) and skips exactly when that key is not held.
C15_KeySkips ==
    /\ ~(pos = "aborted" /\ panic_msg = <<"execute", "SkipIfKey">>)
    /\ JustExecuted("SkipIfKey") =>
          PC = last_instructions[1][1] + (IF CodeHeld(TestedCode) THEN 4 ELSE 2)
    /\ JustExecuted("SkipIfNotKey") =>
          /\ TestedCode \in DOMAIN REVERSE_KEYPRESS_MAP
          /\ PC = last_instructions[1][1] + (IF CodeHeld(TestedCode) THEN 2 ELSE 4)
    /\ (pos = "aborted" /\ panic_msg = <<"execute", "SkipIfNotKey">>) =>
          REGISTERS[last_instructions[1][3][2]] \notin DOMAIN REVERSE_KEYPRESS_MAP

\* SkipIfKey on the code 16, which no host key has, has not skipped.
C15_Witness ==
    /\ JustExecuted("SkipIfKey")
    /\ TestedCode = 16
    /\ PC = last_instructions[1][1] + 2

(***************************************************************************)
(* The timers.  The ROMs load a byte into V1, store it in both timers and  *)
(* spin; the debugger sets the timers with values inside and outside a     *)
(* byte.  The run is long enough to cross the second vblank, at step 12.   *)
(***************************************************************************)
TimerBytes == {0, 1, 2, 255}

TimerRoms == { << \h6100 + v, \hF115, \hF118, \h1206 >> : v \in TimerBytes }

TimerLines == { <<"n">>, <<"s", "d", "0xFF">>, <<"s", "s", "1">>, <<"s", "d", "0x100">> }

NextTimers ==
    \/ Step(KeySamples, MaxStepsTimers)
    \/ Tick
    \/ DebugCommand(TimerLines, MaxStackSmall)

SpecTimers == InitWith(TimerRoms) /\ [][NextTimers]_vars

\* The transition is a step that executes the instruction op, or a REPL
\* step that reads a set command naming one of the words.
SetsTimer(op, words) ==
    \/ /\ pos = "loop"
       /\ get_memory_u16_ok(PC)
       /\ Fetched[1] = op
    \/ /\ pos = "repl"
       /\ history' # <<>>
       /\ Len(EnteredLine) = 3
       /\ EnteredLine[1] \in {"s", "set"}
       /\ EnteredLine[2] \in words

\* A timer after the periodic decrement: one lower, or still 0.
Lowered(t) == IF t = 0 THEN 0 ELSE t - 1

\* C16: both timers stay in 0..255; a timer increases only in a step that
\* executes SetDelayTimer / SetSoundTimer or reads the debugger command
\* set d / set s; the part of the loop after execute changes a timer only by
\* the periodic decrement, which lowers a non-zero timer by exactly 1 and
\* leaves a timer at 0 at 0.
C16_TimersBounded ==
    [][ /\ DELAY_TIMER' \in Byte
        /\ SOUND_TIMER' \in Byte
        /\ DELAY_TIMER' > DELAY_TIMER => SetsTimer("SetDelayTimer", {"d", "delay"})
        /\ SOUND_TIMER' > SOUND_TIMER => SetsTimer("SetSoundTimer", {"s", "sound"})
        /\ pos = "timers" =>
              IF n_instructions_executed % VSYNC_PERIOD = 0
              THEN /\ DELAY_TIMER' = Lowered(DELAY_TIMER)
                   /\ SOUND_TIMER' = Lowered(SOUND_TIMER)
              ELSE /\ DELAY_TIMER' = DELAY_TIMER
                   /\ SOUND_TIMER' = SOUND_TIMER
      ]_vars

\* The second vblank has lowered the delay timer from 255 and the sound
\* timer, set to 1 in the debugger, to 0.
C16_Witness ==
    /\ n_instructions_executed >= VSYNC_PERIOD
    /\ pos # "timers"
    /\ DELAY_TIMER = 254
    /\ SOUND_TIMER = 0
    /\ <<"s", "s", "1">> \in {history[i] : i \in 1..Len(history)}

(***************************************************************************)
(* The cadence of the timer decrements.  One ROM spins; one reaches a Draw *)
(* at step 2, between two vblanks; one alternates a Draw and a jump; one   *)
(* waits for a key; one calls and returns; one draws the glyph of 0 and    *)
(* clears the display.  The run is long enough for 13 iterations after a   *)
(* Draw in debug mode.                                                     *)
(***************************************************************************)
CadenceRoms ==
    { << \h1200 >>,
      << \h6000, \h6000, \hD001, \h1206 >>,
      << \hD001, \h1200 >>,
      << \hF10A, \h1200 >>,
      << \h2204, \h1200, \h00EE >>,
      << \hA050, \hD005, \h00E0, \h1200 >> }

CadenceLines == { <<"n">>, <<"c">> }

NextCadence ==
    \/ Step(KeySamples, MaxStepsCadence)
    \/ Tick
    \/ DebugCommand(CadenceLines, MaxStackSmall)

SpecCadence == InitWith(CadenceRoms) /\ [][NextCadence]_vars

\* The number of the last 12 iterations that decremented the timers.
DecrementsInWindow == Cardinality({i \in 1..Len(timer_log) : timer_log[i]})

\* C17: in every 12 consecutive iterations of the loop the timers are
\* decremented exactly once (the decrement follows the iteration's execute),
\* in debug mode too and whatever instructions the iterations execute.
C17_TimerCadence ==
    Len(timer_log) = VSYNC_PERIOD => DecrementsInWindow = 1

(***************************************************************************)
(* Debug mode.  The ROM spins at 0x200; the debugger is given one line of  *)
(* every command, an unknown command and the blank line.                   *)
(***************************************************************************)
DebugRoms == { << \h1200 >> }

DebugLines ==
    { <<"h">>, <<"c">>, <<"n">>, <<"j", "0x200">>, <<"p", "v1">>, <<"s", "v1", "1">>,
      <<"push", "0x202">>, <<"pop">>, <<"b", "0x202">>, <<"x", "1", "0xFFF">>,
      <<"q">>, <<>> }

NextDebug ==
    \/ Step(KeySamples, MaxStepsDebug)
    \/ Tick
    \/ DebugCommand(DebugLines, MaxStackSmall)

SpecDebug == InitWith(DebugRoms) /\ [][NextDebug]_vars

\* A command line whose first word is continue.
IsContinue(line) == line # <<>> /\ line[1] \in {"c", "continue"}

\* C18: debug mode is a latch.  A sample that contains Escape enables it;
\* while it is enabled the REPL opens after every executed instruction;
\* only the command c / continue disables it: no other command, no blank
\* line (which never replays a continue) and no keyboard sample does.
C18_DebugLatch ==
    [][ /\ ~IsContinue(last_debug_command)
        /\ (pos = "loop" /\ "Escape" \in pressed_keys') => is_debug'
        /\ (pos = "timers" /\ is_debug) => pos' = "repl"
        /\ (is_debug /\ ~is_debug') =>
              /\ pos = "repl"
              /\ history' # <<>>
              /\ IsContinue(EnteredLine)
      ]_vars

\* Debug mode is on after a second instruction, with commands other than
\* continue and next entered in between.
C18_Witness ==
    /\ is_debug
    /\ pos = "repl"
    /\ n_instructions_executed = 1
    /\ Len(history) = 3
    /\ history[2] = <<"n">>
    /\ \A i \in 1..Len(history) : ~IsContinue(history[i])

(***************************************************************************)
(* Single-stepping.                                                        *)
(***************************************************************************)
\* The REPL reads the command n / next.
NextEntered ==
    /\ pos = "repl"
    /\ history' # <<>>
    /\ EnteredLine \in { <<"n">>, <<"next">> }

\* C19: the command n / next leaves the machine state as it is and hands
\* control back to the loop with debug mode enabled; the loop then fetches,
\* decodes and executes exactly one instruction, the one at PC, and, unless
\* that instruction ends the VM, opens the REPL again with debug mode still
\* enabled, whatever the instruction is.
C19_NextStepsOnce ==
    [][ /\ NextEntered =>
              /\ pos' = "loop"
              /\ is_debug'
              /\ sysvars' = sysvars
        /\ (pos = "loop" /\ is_debug) =>
              /\ is_debug'
              /\ pos' \in {"timers", "aborted"}
              /\ pos' = "timers" =>
                    /\ last_instructions'[1] = <<PC, get_memory_u16(Sys, PC), Fetched>>
                    /\ last_instructions # <<>> =>
                          last_instructions'[2] = last_instructions[1]
        /\ (pos = "timers" /\ is_debug) =>
              /\ pos' = "repl"
              /\ is_debug'
              /\ last_instructions' = last_instructions
      ]_vars

\* The REPL is open again after a next that stepped over a Draw.
C19_Witness ==
    /\ pos = "repl"
    /\ is_debug
    /\ last_debug_command = <<"n">>
    /\ Len(last_instructions) >= 2
    /\ last_instructions[1][3][1] = "Draw"

(***************************************************************************)
(* Breakpoints.  The ROM loads V1, V2 and V3 in turn and spins; the        *)
(* debugger sets, lists and removes a breakpoint at the second load.       *)
(***************************************************************************)
BreakRoms == { << \h6101, \h6202, \h6303, \h1206 >> }

BreakLines ==
    { <<"b", "0x202">>, <<"b", "l">>, <<"b", "r", "0x202">>, <<"c">>, <<"n">> }

NextBreak ==
    \/ Step(KeySamples, MaxSteps)
    \/ Tick
    \/ DebugCommand(BreakLines, MaxStackSmall)

SpecBreak == InitWith(BreakRoms) /\ [][NextBreak]_vars

\* The REPL opens while debug mode is disabled: a breakpoint was hit.
BreakpointOpensRepl == pos # "repl" /\ pos' = "repl" /\ ~is_debug'

\* C20: when a breakpoint opens the REPL with debug mode disabled, execution
\* has reached a breakpoint A and the instruction at A has not been
\* executed: PC is A and the most recent instruction executed is not the one
\* at A, so that none of its effects on registers, memory, I, stack, timers
\* or display is visible.
C20_BreakBeforeExecute ==
    [][ BreakpointOpensRepl =>
           /\ PC' \in breakpoints'
           /\ last_instructions'[1][1] \notin breakpoints'
      ]_vars

(***************************************************************************)
(* Input errors of the debugger.                                           *)
(***************************************************************************)
\* A number word that does not parse, or that is wider than the given bound.
BadNumber(word, max) == str_to_num(word) = NoNum \/ str_to_num(word) > max

\* The bound of the value of a set command, by its target.
SetBound(target) == IF target \in {"i", "index", "pc"} THEN 4095 ELSE 255

\* The command line is in error: a wrong argument count, a number that does
\* not parse, an address or value out of range, a pop on the empty stack.
InputError(line) ==
    /\ line # <<>>
    /\ \/ /\ line[1] \in {"j", "jump", "push"}
          /\ Len(line) # 2 \/ BadNumber(line[2], 4095)
       \/ /\ line[1] \in {"p", "print"}
          /\ \/ Len(line) # 2
             \/ /\ ~starts_with_v(line[2])
                /\ line[2] \notin {"i", "index", "pc", "d", "delay", "s", "sound"}
                /\ BadNumber(line[2], 4095)
       \/ /\ line[1] \in {"s", "set"}
          /\ \/ Len(line) # 3
             \/ BadNumber(line[3], SetBound(line[2]))
             \/ /\ starts_with_v(line[2])
                /\ ~word_len_is_2(line[2]) \/ REGISTER_WORDS[line[2]] = NoNum
             \/ /\ ~starts_with_v(line[2])
                /\ line[2] \notin {"i", "index", "pc", "d", "delay", "s", "sound"}
                /\ BadNumber(line[2], 4095)
       \/ /\ line[1] \in {"x", "examine"}
          /\ \/ Len(line) # 3
             \/ str_to_num(line[2]) = NoNum
             \/ str_to_num(line[3]) = NoNum
             \/ str_to_num(line[3]) + str_to_num(line[2]) - 1 > 4095
       \/ /\ line[1] = "pop"
          /\ STACK = <<>>

\* C21: every input error of the debugger is soft: the REPL prompts again,
\* the process does not abort, and PC, I, the registers, memory, the timers
\* and the stack are unchanged.
C21_DebuggerErrorsSoft ==
    [][ (pos = "repl" /\ history' # <<>> /\ InputError(EnteredLine)) =>
           /\ pos' = "repl"
           /\ sysvars' = sysvars
      ]_vars

(***************************************************************************)
(* The set command.  The ROM spins at 0x200; the debugger sets one target  *)
(* of each kind to a value its width check accepts.                        *)
(***************************************************************************)
SetLines ==
    { <<"s", "v1", "0x2A">>, <<"s", "i", "0xFFF">>, <<"s", "pc", "0x300">>,
      <<"s", "d", "0xFF">>, <<"s", "s", "7">>, <<"s", "0x300", "0x2A">>, <<"n">> }

NextSet ==
    \/ Step(KeySamples, MaxStepsDebug)
    \/ Tick
    \/ DebugCommand(SetLines, MaxStackSmall)

SpecSet == InitWith(DebugRoms) /\ [][NextSet]_vars

\* The target word names a settable target.
SettableTarget(t) ==
    \/ starts_with_v(t) /\ word_len_is_2(t) /\ REGISTER_WORDS[t] # NoNum
    \/ t \in {"i", "index", "pc", "d", "delay", "s", "sound"}
    \/ ~BadNumber(t, 4095)

\* The machine s with the value v written to the target t and nothing else
\* changed: the state in which print t reports v.
Written(s, t, v) ==
    IF starts_with_v(t) THEN [s EXCEPT !.REGISTERS[REGISTER_WORDS[t]] = v]
    ELSE IF t \in {"i", "index"} THEN [s EXCEPT !.I = v]
    ELSE IF t = "pc" THEN [s EXCEPT !.PC = v]
    ELSE IF t \in {"d", "delay"} THEN [s EXCEPT !.DELAY_TIMER = v]
    ELSE IF t \in {"s", "sound"} THEN [s EXCEPT !.SOUND_TIMER = v]
    ELSE [s EXCEPT !.MEMORY = mem_write(@, str_to_num(t), v)]

\* C22: for every settable target t and every value v within the width of t,
\* the command set t v writes v to t and changes no other target, so that a
\* print t that follows reports v.
C22_SetWritesTarget ==
    [][ ( /\ pos = "repl"
          /\ history' # <<>>
          /\ Len(EnteredLine) = 3
          /\ EnteredLine[1] \in {"s", "set"}
          /\ SettableTarget(EnteredLine[2])
          /\ ~BadNumber(EnteredLine[3], SetBound(EnteredLine[2])) ) =>
           /\ pos' = "repl"
           /\ Sys' = Written(Sys, EnteredLine[2], str_to_num(EnteredLine[3]))
      ]_vars

(***************************************************************************)
(* The opcode format.  A word is the first word of a ROM; the loop fetches *)
(* and decodes it, and executes what it decodes to.  The words are those   *)
(* with every first nibble, every low byte and the second nibble 0, 1 or   *)
(* 15.                                                                     *)
(***************************************************************************)
DecodeWords == { h * 4096 + x * 256 + lo : h \in 0..15, x \in {0, 1, 15}, lo \in 0..255 }

DecodeRoms == { <<w>> : w \in DecodeWords }

NextDecode == Step({{}}, MaxStepsDecode) \/ Tick

SpecDecode == InitWith(DecodeRoms) /\ [][NextDecode]_vars

\* The opcode table: variant, mask of the fixed nibbles, their value, and
\* the shape of the operands.
OpcodeTable ==
    << <<"Clear", \hFFFF, \h00E0, "">>,
       <<"SubroutineReturn", \hFFFF, \h00EE, "">>,
       <<"Jump", \hF000, \h1000, "NNN">>,
       <<"SubroutineCall", \hF000, \h2000, "NNN">>,
       <<"SkipConditional1", \hF000, \h3000, "XNN">>,
       <<"SkipConditional2", \hF000, \h4000, "XNN">>,
       <<"SkipConditional3", \hF00F, \h5000, "XY">>,
       <<"SetRegister", \hF000, \h6000, "XNN">>,
       <<"Add", \hF000, \h7000, "XNN">>,
       <<"RegSet", \hF00F, \h8000, "XY">>,
       <<"BinaryOr", \hF00F, \h8001, "XY">>,
       <<"BinaryAnd", \hF00F, \h8002, "XY">>,
       <<"BinaryXor", \hF00F, \h8003, "XY">>,
       <<"RegAdd", \hF00F, \h8004, "XY">>,
       <<"Subtract1", \hF00F, \h8005, "XY">>,
       <<"ShiftRight", \hF00F, \h8006, "XY">>,
       <<"Subtract2", \hF00F, \h8007, "XY">>,
       <<"ShiftLeft", \hF00F, \h800E, "XY">>,
       <<"SkipConditional4", \hF00F, \h9000, "XY">>,
       <<"SetIndexRegister", \hF000, \hA000, "NNN">>,
       <<"JumpOffset", \hF000, \hB000, "NNN">>,
       <<"Random", \hF000, \hC000, "XNN">>,
       <<"Draw", \hF000, \hD000, "XYN">>,
       <<"SkipIfKey", \hF0FF, \hE09E, "X">>,
       <<"SkipIfNotKey", \hF0FF, \hE0A1, "X">>,
       <<"GetDelayTimer", \hF0FF, \hF007, "X">>,
       <<"GetKey", \hF0FF, \hF00A, "X">>,
       <<"SetDelayTimer", \hF0FF, \hF015, "X">>,
       <<"SetSoundTimer", \hF0FF, \hF018, "X">>,
       <<"AddToIndex", \hF0FF, \hF01E, "X">>,
       <<"FontCharacter", \hF0FF, \hF029, "X">>,
       <<"BCD", \hF0FF, \hF033, "X">>,
       <<"StoreMemory", \hF0FF, \hF055, "X">>,
       <<"LoadMemory", \hF0FF, \hF065, "X">> >>

\* The rows of the table whose pattern the word matches.
MatchingRows(w) == {r \in 1..Len(OpcodeTable) : BitAnd(w, OpcodeTable[r][2]) = OpcodeTable[r][3]}

\* The operands of a shape, taken from the bits of the word.
OperandsOf(w, shape) ==
    LET x == (w \div 256) % 16
        y == (w \div 16) % 16
    IN  CASE shape = "" -> <<>>
          [] shape = "NNN" -> <<w % 4096>>
          [] shape = "XNN" -> <<x, w % 256>>
          [] shape = "XY" -> <<x, y>>
          [] shape = "XYN" -> <<x, y, w % 16>>
          [] shape = "X" -> <<x>>

\* What the table makes of a word.
TableInstruction(w) ==
    IF MatchingRows(w) = {} THEN None
    ELSE LET r == CHOOSE r \in MatchingRows(w) : TRUE
         IN  <<OpcodeTable[r][1]>> \o OperandsOf(w, OpcodeTable[r][4])

\* The first step is over: the word has been fetched and decoded.
Decoded == pos # "loop" /\ n_instructions_executed = 0 /\ Len(last_instructions) <= 1

\* C23: decode is total on the 16-bit words: it yields an instruction or
\* the invalid outcome and nothing else; it yields an instruction exactly
\* for the words that match a pattern of the opcode table, and the operands
\* are X = bits 8..11, Y = bits 4..7, N / NN / NNN = the low 4 / 8 / 12 bits.
C23_DecodeTotal ==
    Decoded =>
        IF last_instructions # <<>>
        THEN /\ last_instructions[1][3] # None
             /\ last_instructions[1][3] = TableInstruction(last_instructions[1][2])
        ELSE /\ pos = "aborted"
             /\ panic_msg[1] = "Invalid instruction"
             /\ TableInstruction(panic_msg[3]) = None

\* The word 0xD12F has been decoded to a Draw with all three operands.
C23_Witness ==
    /\ Decoded
    /\ last_instructions # <<>>
    /\ last_instructions[1][2] = 53551
    /\ last_instructions[1][3] = <<"Draw", 1, 2, 15>>

\* The word the opcode table gives an instruction: the fixed nibbles of its
\* row with the operands in their places.
Encode(instruction) ==
    LET r == CHOOSE r \in 1..Len(OpcodeTable) : OpcodeTable[r][1] = instruction[1]
        shape == OpcodeTable[r][4]
        fixed == OpcodeTable[r][3]
    IN  CASE shape = "" -> fixed
          [] shape = "NNN" -> fixed + instruction[2]
          [] shape = "XNN" -> fixed + instruction[2] * 256 + instruction[3]
          [] shape = "XY" -> fixed + instruction[2] * 256 + instruction[3] * 16
          [] shape = "XYN" -> fixed + instruction[2] * 256 + instruction[3] * 16 + instruction[4]
          [] shape = "X" -> fixed + instruction[2] * 256

\* C24: for every word W that decode maps to an instruction, encoding that
\* instruction by the opcode table yields W again; hence decode maps no two
\* words to the same instruction.
C24_DecodeEncodeRoundTrip ==
    (Decoded /\ last_instructions # <<>>) =>
        Encode(last_instructions[1][3]) = last_instructions[1][2]

\* The word 0x81B4 has been fetched and decoded.
C24_Witness ==
    /\ Decoded
    /\ last_instructions # <<>>
    /\ last_instructions[1][2] = 33204
    /\ last_instructions[1][3] = <<"RegAdd", 1, 11>>

\* C25: when the word fetched at PC does not decode, the VM aborts in that
\* step without executing anything, and its diagnostic carries the address
\* the word was fetched from and the raw word.
C25_InvalidWordDiagnostic ==
    [][ (pos = "loop" /\ get_memory_u16_ok(PC) /\ Fetched = None) =>
           /\ pos' = "aborted"
           /\ panic_msg' = <<"Invalid instruction", PC, get_memory_u16(Sys, PC)>>
           /\ UNCHANGED <<MEMORY, DISPLAY, I, STACK, DELAY_TIMER, SOUND_TIMER, REGISTERS>>
      ]_vars

(***************************************************************************)
(* Instructions that write memory through I.  One family of ROMs loads V1  *)
(* and stores its font address at I; the other loads V0 and V1, stores     *)
(* V0..VX at I, clears the registers and loads them back from the same I.  *)
(***************************************************************************)
MemRoms ==
    { << \h6100 + v, \hA000 + i, \hF129 >> : v \in {0, 9, 15, 16, 255}, i \in {768, 4093} }
    \cup
    { << \h6000 + a, \h6100 + b, \hA000 + i, \hF055 + 256 * x,
         \h6000, \h6100, \hA000 + i, \hF065 + 256 * x >> :
         a \in {1, 255}, b \in {0, 2}, i \in {768, 4093}, x \in {0, 1} }

NextMem == Step({{}}, MaxStepsMem) \/ Tick

SpecMem == InitWith(MemRoms) /\ [][NextMem]_vars

\* The step fetches the instruction op and gets as far as executing it.
Executing(op) ==
    /\ pos = "loop"
    /\ get_memory_u16_ok(PC)
    /\ Fetched[1] = op
    /\ \/ pos' = "timers"
       \/ pos' = "aborted" /\ panic_msg' # <<>> /\ panic_msg'[1] = "execute"

\* C26: FontCharacter stores the 16-bit value 0x050 + 5 * (VX & 0x0F),
\* high byte first, at memory[I] and memory[I + 1], for every VX in 0..255,
\* and leaves I, PC, the registers and every other memory byte unchanged.
C26_FontCharacter ==
    [][ (Executing("FontCharacter") /\ I + 1 <= 4095) =>
           LET val == FONT_BASE + 5 * BitAnd(REGISTERS[Fetched[2]], 15)
           IN  /\ pos' = "timers"
               /\ MEMORY' = mem_write(mem_write(MEMORY, I, val \div 256), I + 1, val % 256)
               /\ I' = I
               /\ PC' = PC + 2
               /\ REGISTERS' = REGISTERS
      ]_vars

\* Memory with the registers V0..Vx written from addr on.
RECURSIVE StoredFrom(_, _, _, _)
StoredFrom(mem, regs, addr, x) ==
    IF x < 0 THEN mem
    ELSE mem_write(StoredFrom(mem, regs, addr, x - 1), addr + x, regs[x])

\* C27: StoreMemory with operand X and I + X + 1 <= 0xFFF writes V0..VX to
\* memory[I] .. memory[I + X] in order, changes no other byte and no
\* register and leaves I increased by X + 1; LoadMemory reads memory[I] ..
\* memory[I + X] into V0..VX, leaves memory and the other registers
\* unchanged and increases I by X + 1, so that after a store from the same I
\* it reads back what was stored.
C27_StoreLoadMemory ==
    [][ /\ (Executing("StoreMemory") /\ I + Fetched[2] + 1 <= 4095) =>
              /\ pos' = "timers"
              /\ MEMORY' = StoredFrom(MEMORY, REGISTERS, I, Fetched[2])
              /\ REGISTERS' = REGISTERS
              /\ I' = I + Fetched[2] + 1
        /\ (Executing("LoadMemory") /\ I + Fetched[2] + 1 <= 4095) =>
              /\ pos' = "timers"
              /\ REGISTERS' = [r \in Registers |->
                                  IF r <= Fetched[2] THEN mem_read(MEMORY, I + r)
                                  ELSE REGISTERS[r]]
              /\ MEMORY' = MEMORY
              /\ I' = I + Fetched[2] + 1
      ]_vars

\* The load has read back the two bytes the store wrote at 0x300.
C27_Witness ==
    /\ JustExecuted("LoadMemory")
    /\ last_instructions[1][3][2] = 1
    /\ I = 770
    /\ REGISTERS[0] = 255
    /\ REGISTERS[1] = 2
    /\ mem_read(MEMORY, 768) = 255
    /\ mem_read(MEMORY, 769) = 2

(***************************************************************************)
(* The frame of the display.                                               *)
(***************************************************************************)
\* C28: the display changes only in a step that executes Clear or a Draw
\* that commits: every other instruction, a Draw that waits for the vblank,
\* the timer decrement and every debugger command leave all pixels as they
\* are; after Clear every pixel is false.
C28_DisplayFrame ==
    [][ /\ DISPLAY' # DISPLAY =>
              /\ pos = "loop"
              /\ get_memory_u16_ok(PC)
              /\ \/ Fetched[1] = "Clear"
                 \/ /\ Fetched[1] = "Draw"
                    /\ n_instructions_executed' % VSYNC_PERIOD = 1
        /\ Executing("Clear") => DISPLAY' = BlankDisplay
      ]_vars

\* Clear has erased the glyph a Draw had put on the display.
C28_Witness ==
    /\ JustExecuted("Clear")
    /\ old_display_state # BlankDisplay
    /\ DISPLAY = BlankDisplay

(***************************************************************************)
(* The reader of standard input.  The input is any text of two letters and *)
(* the newline, arriving a character at a time and read in any pieces.     *)
(* The debugger calls set_contents at a fresh prompt, before the user has  *)
(* typed anything of the line.                                             *)
(***************************************************************************)
NextReader ==
    \/ (stdin_typed = <<>> /\ set_contents({<<"n">>, <<"p">>}, MaxInjections))
    \/ Type({"a", "b", "\n"}, MaxTyped)
    \/ ReaderRecv
    \/ ReaderFill
    \/ readline

SpecReader == InitWith(DebugRoms) /\ [][NextReader]_vars

\* The newline-terminated lines of a text, without their terminators.
RECURSIVE CompleteLines(_)
CompleteLines(text) ==
    LET nl == find_newline(text)
    IN  IF nl = 0 THEN <<>>
        ELSE <<SubSeq(text, 1, nl - 1)>> \o CompleteLines(SubSeq(text, nl + 1, Len(text)))

\* The text after the last newline.
RECURSIVE AfterLastNewline(_)
AfterLastNewline(text) ==
    LET nl == find_newline(text)
    IN  IF nl = 0 THEN text ELSE AfterLastNewline(SubSeq(text, nl + 1, Len(text)))

\* C29: without injections, once the reader has read all the input that has
\* arrived, every newline-terminated line of it has been published exactly
\* once, in the order of arrival and without its terminator, however the
\* input was split into reads; the text after the last newline is kept for
\* the next line.
C29_ReaderPublishesLines ==
    (injections = <<>> /\ stdin_pending = <<>> /\ reader_pos = "recv") =>
        /\ lines_read \o lines_chan = CompleteLines(stdin_typed)
        /\ reader_buf = AfterLastNewline(stdin_typed)

\* C30: when the debugger has injected text before the user typed the line,
\* the first line readline returns is the text injected last followed by
\* what the user typed up to Enter, in every interleaving of the two
\* threads.
C30_InjectionPrefixesLine ==
    (injections # <<>> /\ lines_read # <<>>) =>
        lines_read[1] = injections[Len(injections)] \o CompleteLines(stdin_typed)[1]

\* C31: the history never holds two equal adjacent entries, and every line
\* entered at the prompt either leaves the history as it is or appends one
\* entry that differs from the last one; no entry is removed or reordered.
C31_HistoryNoAdjacentDuplicates ==
    /\ [](\A i \in 1..(Len(history) - 1) : history[i] # history[i + 1])
    /\ [][\/ history' = history
          \/ /\ Len(history') = Len(history) + 1
             /\ SubSeq(history', 1, Len(history)) = history
             /\ (history # <<>> => history[Len(history)] # history'[Len(history')])]_vars

\* Three entries, the first entered again after a different one.
C31_Witness ==
    Len(history) = 3 /\ history[1] = history[3] /\ history[1] # history[2]

\* The command words that a blank line replays.
ReplayedWords ==
    {"h", "help", "n", "next", "j", "jump", "p", "print", "s", "set", "push", "pop",
     "b", "breakpoint", "x", "examine"}

\* What a blank line re-executes after this pass of the prompt: the line just
\* processed, or nothing once the debugger is left with continue.
ReplayAfter(words) ==
    /\ pos = "repl"
    /\ pos' # "aborted"
    /\ history' # <<>>
    /\ IF EnteredLine = <<>>
       THEN last_debug_command' = <<>> /\ Sys' = Sys /\ pos' = "repl"
       ELSE /\ EnteredLine[1] \in words => last_debug_command' = EnteredLine
            /\ EnteredLine = <<"c">> => last_debug_command' = <<>>

\* C32: the command a blank line re-executes is the most recently entered
\* command line, whichever of help, next, jump, print, set, push, pop,
\* breakpoint and examine it was; after continue, and before any command, a
\* blank line does nothing.
C32_BlankReplaysLast == [][pos = "repl" => ReplayAfter(ReplayedWords)]_vars

\* The host keys row by row, and the CHIP-8 keys at the same positions.
HostLayout ==
    << "Key1", "Key2", "Key3", "Key4", "Q", "W", "E", "R",
       "A", "S", "D", "F", "Z", "X", "C", "V" >>

Chip8Layout == << 1, 2, 3, 12, 4, 5, 6, 13, 7, 8, 9, 14, 10, 0, 11, 15 >>

\* C33: the two key maps are mutual inverses, cover the 16 codes, and pair
\* the host keys 1 2 3 4 / Q W E R / A S D F / Z X C V with the keys
\* 1 2 3 C / 4 5 6 D / 7 8 9 E / A 0 B F; in particular every mapped host
\* key that is held is found again through its code.
C33_KeyMapsInverse ==
    /\ \A h \in pressed_keys \cap DOMAIN KEYPRESS_MAP :
         REVERSE_KEYPRESS_MAP[KEYPRESS_MAP[h]] \in pressed_keys
    /\ DOMAIN REVERSE_KEYPRESS_MAP = 0..15
    /\ \A k \in 0..15 : KEYPRESS_MAP[REVERSE_KEYPRESS_MAP[k]] = k
    /\ \A h \in DOMAIN KEYPRESS_MAP : REVERSE_KEYPRESS_MAP[KEYPRESS_MAP[h]] = h
    /\ DOMAIN KEYPRESS_MAP = {HostLayout[p] : p \in 1..16}
    /\ \A p \in 1..16 : KEYPRESS_MAP[HostLayout[p]] = Chip8Layout[p]

\* A GetKey has stored the code of the released host key Q, and the code
\* maps back to that key.
C33_Witness ==
    /\ JustExecuted("GetKey")
    /\ \E key \in ReleasedKeys \cap {"Q"} :
         /\ REGISTERS[Executed[2]] = KEYPRESS_MAP[key]
         /\ REVERSE_KEYPRESS_MAP[REGISTERS[Executed[2]]] = key

\* C34: taking the (I, memory[I], memory[I + 2]) snapshot never aborts the
\* machine, whatever value in 0..0xFFF the index register holds.
C34_SnapshotNeverAborts ==
    ~(/\ pos = "aborted"
      /\ panic_msg = <<"snapshot", I>>
      /\ I \in 0..4095
      /\ ~is_12bit(I + 2))

(***************************************************************************)
(* The loop outside debug mode: no Escape, no debugger.  The loop keeps    *)
(* running: an iteration that can be taken is taken.  Step is the only     *)
(* action that leaves the head of the loop and it can be taken whenever    *)
(* the run has steps left, so fairness of Step is fairness of LoopAdvances.*)
(***************************************************************************)
NextGate == Step({{}}, MaxStepsCadence) \/ Tick

LoopAdvances ==
    /\ pos = "loop"
    /\ n_instructions_executed < MaxStepsCadence
    /\ pos' \in {"timers", "aborted"}

SpecGate ==
    /\ InitWith(CadenceRoms)
    /\ [][NextGate]_vars
    /\ WF_pos(LoopAdvances)
    /\ WF_vars(Tick)

\* The step just taken executed a Draw and left PC at it / past it.
DrawWaits == JustExecuted("Draw") /\ PC = last_instructions[1][1]
DrawDone == JustExecuted("Draw") /\ PC = last_instructions[1][1] + 2

\* C35: outside debug mode a Draw that is fetched is gated exactly while the
\* step counter is not 1 modulo 12, is then fetched again by the next step,
\* and commits at the latest 11 iterations after the fetch, that is within
\* 12 steps.  (Fetches late enough for the 12 steps to fit in the run.)
C35_DrawEventuallyCommits ==
    /\ [](JustExecuted("Draw") =>
            /\ DrawWaits \/ DrawDone
            /\ DrawWaits <=> (n_instructions_executed % VSYNC_PERIOD) # 1)
    /\ \A n0 \in 0..(MaxStepsCadence - VSYNC_PERIOD) :
         (pos = "loop" /\ n_instructions_executed = n0 /\ Fetched[1] = "Draw")
            ~> (DrawDone /\ n_instructions_executed <= n0 + VSYNC_PERIOD - 1)

\* The Draw of the ROM A050 D005 00E0 1200, fetched again at step 5, has
\* waited and commits at step 13.
C35_Witness ==
    /\ DrawDone
    /\ n_instructions_executed = 13
    /\ DISPLAY # BlankDisplay
    /\ MEMORY[ROM_BASE] = 160

\* C36: in debug mode a step that fetches a Draw and reaches execute first
\* moves the step counter to the next value that is 1 modulo 12 (leaving it
\* where it is when it already is), and the Draw commits in that step: PC
\* ends past the Draw.
C36_DebugDrawNotGated ==
    [][(pos = "loop" /\ is_debug' /\ Fetched[1] = "Draw" /\ pos' = "timers") =>
          /\ n_instructions_executed' % VSYNC_PERIOD = 1
          /\ n_instructions_executed' \in
                n_instructions_executed..(n_instructions_executed + VSYNC_PERIOD - 1)
          /\ PC' = PC + 2
          /\ Sys' = draw_commit([Sys EXCEPT !.PC = PC + 2],
                                Fetched[2], Fetched[3], Fetched[4])]_vars

\* The first step of the run, taken in debug mode, was a Draw: the counter
\* went from 0 to 1 within the step and PC is past the Draw.
C36_Witness ==
    /\ JustExecuted("Draw")
    /\ is_debug
    /\ timer_log = <<>>
    /\ n_instructions_executed = 1
    /\ PC = ROM_BASE + 2

(***************************************************************************)
(* The history keys.  The debugger is opened by Escape, takes lines that   *)
(* keep it open, and between two lines the arrow keys are sampled.         *)
(***************************************************************************)
NextLine ==
    \/ Step(KeySamples, MaxStepsDebug)
    \/ Tick
    \/ DebugCommand({ <<"h">>, <<"p", "v1">>, <<"s", "v1", "1">> }, MaxStackSmall)
    \/ get_line({ {}, {"Up"}, {"Down"}, {"Up", "Down"} }, MaxInjections)

SpecLine == InitWith(DebugRoms) /\ [][NextLine]_vars

\* The entry that is k entries back from the end of the history.
EntryBack(k) == history[Len(history) + 1 - k]

\* C37: with a non-empty history, an Up press edge moves the index one
\* entry older, stopping at the oldest, and injects that entry; a Down press
\* edge moves it one entry newer and injects that entry, or the empty text
\* once it is past the newest; the index stays within the history.
C37_HistoryKeysInjectEntries ==
    [][(pos = "repl" /\ history # <<>> /\ injections' # injections) =>
          LET up == "Up" \in dbg_last_pressed_keys' \ dbg_last_pressed_keys
              down == "Down" \in dbg_last_pressed_keys' \ dbg_last_pressed_keys
              older == IF current_history_idx < Len(history)
                       THEN current_history_idx + 1 ELSE Len(history)
              newer == IF current_history_idx > 0 THEN current_history_idx - 1 ELSE 0
          IN  /\ current_history_idx' \in 0..Len(history)
              /\ (up /\ ~down) =>
                    /\ current_history_idx' = older
                    /\ injections' = Append(injections, EntryBack(older))
              /\ (down /\ ~up) =>
                    /\ current_history_idx' = newer
                    /\ injections' = Append(injections,
                                            IF newer = 0 THEN <<>> ELSE EntryBack(newer))]_vars

\* C38: the ring never holds more than 3 entries.  A step that gets as far
\* as execute puts (PC before the fetch, the word fetched, its decoding) in
\* front, keeps the entries that were there in their order and drops the
\* oldest when there were three; no other step changes the ring.
C38_RingOfThree ==
    /\ [](Len(last_instructions) <= 3)
    /\ [][IF pos = "loop" /\ (pos' = "timers" \/ panic_msg'[1] = "execute")
          THEN /\ last_instructions'[1] = <<PC, get_memory_u16(Sys, PC), Fetched>>
               /\ Len(last_instructions') =
                     (IF Len(last_instructions) < 3 THEN Len(last_instructions) + 1 ELSE 3)
               /\ \A i \in 2..Len(last_instructions') :
                     last_instructions'[i] = last_instructions[i - 1]
          ELSE last_instructions' = last_instructions]_vars

\* The fourth step of a run has been taken: the ring holds the last three.
C38_Witness ==
    /\ pos = "timers"
    /\ n_instructions_executed = 3
    /\ Len(last_instructions) = 3
    /\ last_instructions[3][1] # ROM_BASE

(***************************************************************************)
(* The assembler on the lines `jmp N`, `call N`, `jo N`, `jmp VX` and      *)
(* `jmp`, for small N and for N around the ends of the three fields.       *)
(***************************************************************************)
AsmLines ==
    { << <<"Ins", m>>, <<"Val", n>> >> :
        m \in {"jmp", "call", "jo"},
        n \in 0..47 \cup {254, 255, 256, 512, 4094, 4095, 4096, 65535} }
        \cup { << <<"Ins", "jmp">>, <<"Reg", 1>> >>, << <<"Ins", "jmp">> >> }

SpecAsm == InitWith(DebugRoms) /\ [][parse_line(AsmLines)]_vars

\* C39: for the value N of the line assembled, each validator returns N
\* when N fits its field (4, 8, 12 bits) and rejects it when it does not,
\* and `jmp N` with N <= 0xFFF yields Jump(N).
C39_OperandCarried ==
    (Len(asm_line) = 2 /\ asm_line[2][1] = "Val") =>
        LET n == asm_line[2][2]
        IN  /\ validate_u4(n) = (IF n <= 15 THEN n ELSE Rejected)
            /\ validate_u8(n) = (IF n <= 255 THEN n ELSE Rejected)
            /\ validate_u12(n) = (IF n <= 4095 THEN n ELSE Rejected)
            /\ (asm_line[1][2] = "jmp" /\ n <= 4095) => asm_out = <<"Jump", n>>

\* The words that differ from the word at 0x200 in their second nibble only.
SecondNibbleVariants ==
    LET w == get_memory_u16(Sys, ROM_BASE)
    IN  { w - BitAnd(w, \h0F00) + 256 * x : x \in 0..15 }

\* C40: the decode of the runtime loop and the shared decode return the
\* same instruction, or both the invalid outcome, on every 16-bit word (the
\* ROMs hold every first, third and fourth nibble, and the second nibble is
\* varied here before the word is fetched); what the loop has decoded is
\* what the shared decode returns for the word.
C40_DecodesAgree ==
    IF last_instructions = <<>>
    THEN pos = "loop" => \A w \in SecondNibbleVariants : decode(w) = decode_shared(w)
    ELSE last_instructions[1][3] = decode_shared(last_instructions[1][2])

\* The loop has decoded and executed 0x5120, which the shared decode reads
\* as the same instruction.
C40_Witness ==
    /\ pos = "timers"
    /\ get_memory_u16(Sys, ROM_BASE) = 20768
    /\ Executed = decode_shared(20768)
    /\ Executed # None

====
